---- MODULE Spec2Model ----
(***************************************************************************)
(* A model of the lunch-menu digest bot: the aggregator getTodaysMenu      *)
(* (scraper.js), the Exeter page walker parseExeterSection (scraper.js)    *)
(* and the weekly caches of fetchBlavatnik (blavatnik.js) and              *)
(* fetchSchwarzman (schwarzman.js).                                        *)
(*                                                                         *)
(* Text is modelled as a sequence of tokens; a token is a string standing  *)
(* for that literal run of characters.  The non-ASCII characters of the    *)
(* source are written with ASCII stand-ins: "<bullet>" for U+2022,         *)
(* "<endash>" for U+2013, "<emdash>" for U+2014.                           *)
(***************************************************************************)
EXTENDS Integers, Sequences, FiniteSets, TLC

VARIABLES
  \* ---- getTodaysMenu (one digest request) ----
  aggPc,        \* "idle" | "loop" | "await" | "returned" | "rejected"
  today,        \* the weekday name computed once at the start of the digest
  idx,          \* position of the for-loop in MENU_SOURCES (1-based)
  msg,          \* the digest text built so far, a sequence of chunks
  anyItems,     \* the anyItems flag
  nowDay,       \* the wall clock's weekday, as Date.getDay() gives it (0 = Sunday)
  calls,        \* history: how often each source's fetch was invoked
  args,         \* history: the weekday each source's fetch was last invoked with
  inflight,     \* history: the sources whose fetch is invoked and not yet settled
  waited,       \* history: how long each source's fetch took to settle (ticks)
  settled,      \* history: what each source's fetch settled with:
                \* kind "none" (not yet), "threw", or "resolved" with its items
  \* ---- parseExeterSection (one call) ----
  parsePc,      \* "idle" | "walk" | "returned" | "threw"
  doc,          \* the sibling nodes of the page, in document order
  sectionName,  \* the sectionName argument
  ptoday,       \* the today argument
  current,      \* position of `current` in doc (Len(doc) + 1: no more sibling)
  skipUntilNext,\* the skipUntilNext flag
  lines,        \* the lines collected so far
  origin,       \* history: for each line, the node (and list item) it came from
  \* ---- fetchBlavatnik, fetchSchwarzman (the weekly caches) ----
  now,          \* the wall clock: an instant (UTC), in slots of a day
  tz,           \* the host's offset from UTC, in slots (local = UTC + tz)
  creds,        \* whether GMAIL_USER, GMAIL_APP_PASSWORD, ANTHROPIC_API_KEY are set
  file,         \* the cache file of each source
  cpc,          \* where each caller's fetch stands
  csrc,         \* the source each caller is fetching
  ctoday,       \* the today argument of each caller's fetch
  left,         \* image attachments still to try, the current one included
  lock,         \* each caller's mailbox lock: "none" | "held" | "released" | "twice"
  result,       \* the line list each caller's fetch resolved with
  refreshCalls, \* history: invocations of checkForNew*Menu by the fetch
  outcome,      \* history: how the refresh of the fetch ended
  parsed,       \* history: what parseMenuImage returned for the attachment last tried
  \* ---- getWeekMonday (one call) ----
  wkPc,         \* "idle" | "returned"
  refDate,      \* the date argument, an instant
  weekMonday,   \* the instant returned
  \* ---- stripCalories (applied once, then to its own result) ----
  scPc,         \* "idle" | "once" | "twice"
  scText,       \* the text argument
  scOnce,       \* stripCalories(text)
  scTwice,      \* stripCalories(stripCalories(text))
  \* ---- the read of fetchBlavatnik on a parsed cache (one call) ----
  rdPc,         \* "idle" | "returned"
  rdMenu,       \* cached.menu: the day menus by weekday name
  rdToday,      \* the today argument
  rdLines       \* the line list returned

aggVars == <<aggPc, today, idx, msg, anyItems, nowDay, calls, args, inflight,
             waited, settled>>

parseVars == <<parsePc, doc, sectionName, ptoday, current, skipUntilNext, lines,
               origin>>

cacheVars == <<now, tz, creds, file, cpc, csrc, ctoday, left, lock, result,
               refreshCalls, outcome, parsed>>

weekVars == <<wkPc, refDate, weekMonday>>

stripVars == <<scPc, scText, scOnce, scTwice>>

readVars == <<rdPc, rdMenu, rdToday, rdLines>>

vars == <<aggVars, parseVars, cacheVars, weekVars, stripVars, readVars>>

\* What the actions of one component leave alone.
otherThanAgg == <<parseVars, cacheVars, weekVars, stripVars, readVars>>

otherThanParse == <<aggVars, cacheVars, weekVars, stripVars, readVars>>

otherThanCache == <<aggVars, parseVars, weekVars, stripVars, readVars>>

otherThanWeek == <<aggVars, parseVars, cacheVars, stripVars, readVars>>

otherThanStrip == <<aggVars, parseVars, cacheVars, weekVars, readVars>>

otherThanRead == <<aggVars, parseVars, cacheVars, weekVars, stripVars>>

(***************************************************************************)
(* Bounds of the model.                                                    *)
(***************************************************************************)
\* longest line list a source's fetch resolves with
MaxItems == 2
\* longest time, in ticks, a single fetch stays pending
MaxWait == 1

(***************************************************************************)
(* scraper.js: constants                                                   *)
(***************************************************************************)
DAYS ==
  <<"Sunday", "Monday", "Tuesday", "Wednesday", "Thursday", "Friday", "Saturday">>

DayNames == {DAYS[i] : i \in 1..Len(DAYS)}

MENU_SOURCES ==
  << [name |-> "Dakota Cafe (Cohen Quad)", info |-> "12:00-13:30 / 3.80"],
     [name |-> "Blavatnik Cafe",           info |-> "12:00-13:30 / 5.50"],
     [name |-> "Schwarzman Centre",        info |-> "12:00-14:00 / 7.95"] >>

NumSources == Len(MENU_SOURCES)

SourceIds == 1..NumSources

NoItemsNotice == "\nNo menu items found for today."

\* Lines a source's fetch may resolve with: a heading, bullets, a label.
SampleLines ==
  <<"\n*Main Course*", "<bullet> Pasta", "<bullet> Salad Bar", "_Next available: Tuesday_">>

\* What a fetch can resolve with: the line lists of up to MaxItems lines.
ItemLists ==
  {SubSeq(SampleLines, 1, n) : n \in 0..(IF MaxItems < Len(SampleLines)
                                         THEN MaxItems ELSE Len(SampleLines))}

(***************************************************************************)
(* getTodaysMenu: the pieces of the handler                                *)
(***************************************************************************)
\* `<lunch menu header>\n<date>\n`
Header(day) == <<"*Lunch Menu*\n", day \o ", <date>", "\n">>

\* items.join("\n")
RECURSIVE JoinLines(_)
JoinLines(items) ==
  IF Len(items) = 0 THEN <<>>
  ELSE IF Len(items) = 1 THEN <<items[1]>>
  ELSE <<items[1], "\n">> \o JoinLines(Tail(items))

SourceTitle(i) == "\n*--- " \o MENU_SOURCES[i].name \o " ---*\n"

SourceInfo(i) == MENU_SOURCES[i].info \o "\n"

\* The titled block of one source.
Block(i, items) ==
  <<SourceTitle(i), SourceInfo(i)>> \o JoinLines(items) \o <<"\n">>

\* What the try body does with the resolved items.
AppendItemsAlways(m, any, i, items) ==
  [msg |-> m \o Block(i, items), anyItems |-> TRUE]

AppendItemsNoFlag(m, any, i, items) ==
  IF Len(items) > 0
  THEN [msg |-> m \o Block(i, items), anyItems |-> any]
  ELSE [msg |-> m, anyItems |-> any]

AppendItems(m, any, i, items) ==
  IF Len(items) > 0
  THEN [msg |-> m \o Block(i, items), anyItems |-> TRUE]
  ELSE [msg |-> m, anyItems |-> any]

\* The catch clause: logs and lets the loop go on.
CatchRethrows == "rejected"

CatchFetchError == "loop"

\* Whether the loop may invoke the next source's fetch: the await has returned.
InvokeWithoutAwait == aggPc \in {"loop", "await"} /\ idx <= NumSources

InvokeEnabled == aggPc = "loop" /\ idx <= NumSources

\* The weekday handed to source.fetch.
FetchArg == today

\* After the loop.
CloseDigest(m, any) ==
  IF ~any THEN m \o <<NoItemsNotice>> ELSE m

(***************************************************************************)
(* getTodaysMenu: the actions                                              *)
(***************************************************************************)
AggInit ==
  /\ aggPc = "idle"
  /\ today = "none"
  /\ idx = 0
  /\ msg = <<>>
  /\ anyItems = FALSE
  /\ nowDay \in 0..6
  /\ calls = [i \in SourceIds |-> 0]
  /\ args = [i \in SourceIds |-> "none"]
  /\ inflight = {}
  /\ waited = [i \in SourceIds |-> 0]
  /\ settled = [i \in SourceIds |-> [kind |-> "none", items |-> <<>>]]

\* No call of the pure functions is modelled.
WeekOff ==
  /\ wkPc = "off"
  /\ refDate = 0
  /\ weekMonday = 0

StripOff ==
  /\ scPc = "off"
  /\ scText = <<>>
  /\ scOnce = <<>>
  /\ scTwice = <<>>

ReadOff ==
  /\ rdPc = "off"
  /\ rdMenu = <<>>
  /\ rdToday = "none"
  /\ rdLines = <<>>

FunctionsOff ==
  /\ WeekOff
  /\ StripOff
  /\ ReadOff

\* No fetch of a cache-backed source is modelled; the host's offset apart.
CacheIdle ==
  /\ now = 0
  /\ creds = FALSE
  /\ file = <<>>
  /\ cpc = <<>>
  /\ csrc = <<>>
  /\ ctoday = <<>>
  /\ left = <<>>
  /\ lock = <<>>
  /\ result = <<>>
  /\ refreshCalls = <<>>
  /\ outcome = <<>>
  /\ parsed = <<>>

CacheOff ==
  /\ tz = 0
  /\ CacheIdle

\* No parseExeterSection call is modelled.
ParseOff ==
  /\ parsePc = "off"
  /\ doc = <<>>
  /\ sectionName = <<>>
  /\ ptoday = "none"
  /\ current = 0
  /\ skipUntilNext = FALSE
  /\ lines = <<>>
  /\ origin = <<>>

\* Entry: today, dateStr, the header, anyItems = false.
GetTodaysMenu ==
  /\ aggPc = "idle"
  /\ aggPc' = "loop"
  /\ today' = DAYS[nowDay + 1]
  /\ idx' = 1
  /\ msg' = Header(DAYS[nowDay + 1])
  /\ anyItems' = FALSE
  /\ UNCHANGED <<nowDay, calls, args, inflight, waited, settled>>
  /\ UNCHANGED otherThanAgg

\* source.fetch(today) is called; the loop awaits it.
InvokeFetch ==
  /\ InvokeEnabled
  /\ aggPc' = "await"
  /\ calls' = [calls EXCEPT ![idx] = @ + 1]
  /\ args' = [args EXCEPT ![idx] = FetchArg]
  /\ inflight' = inflight \cup {idx}
  /\ UNCHANGED <<today, idx, msg, anyItems, nowDay, waited, settled>>
  /\ UNCHANGED otherThanAgg

\* The pending fetch takes time; the wall clock may pass midnight meanwhile
\* (at most once while one digest is composed).
FetchPending ==
  /\ aggPc = "await"
  /\ waited[idx] < MaxWait
  /\ waited' = [waited EXCEPT ![idx] = @ + 1]
  /\ \E midnight \in BOOLEAN :
       nowDay' = IF midnight /\ DAYS[nowDay + 1] = today
                 THEN (nowDay + 1) % 7 ELSE nowDay
  /\ UNCHANGED <<aggPc, today, idx, msg, anyItems, calls, args, inflight, settled>>
  /\ UNCHANGED otherThanAgg

\* The awaited fetch resolves with a line list: the rest of the try body.
FetchResolves ==
  /\ aggPc = "await"
  /\ \E items \in ItemLists :
       LET r == AppendItems(msg, anyItems, idx, items)
       IN  /\ msg' = r.msg
           /\ anyItems' = r.anyItems
           /\ settled' = [settled EXCEPT ![idx] = [kind |-> "resolved", items |-> items]]
  /\ inflight' = inflight \ {idx}
  /\ idx' = idx + 1
  /\ aggPc' = "loop"
  /\ UNCHANGED <<today, nowDay, calls, args, waited>>
  /\ UNCHANGED otherThanAgg

\* The awaited fetch throws or rejects: the catch clause runs.
FetchRejects ==
  /\ aggPc = "await"
  /\ settled' = [settled EXCEPT ![idx] = [kind |-> "threw", items |-> <<>>]]
  /\ inflight' = inflight \ {idx}
  /\ aggPc' = CatchFetchError
  /\ idx' = IF CatchFetchError = "loop" THEN idx + 1 ELSE idx
  /\ UNCHANGED <<today, msg, anyItems, nowDay, calls, args, waited>>
  /\ UNCHANGED otherThanAgg

\* The loop is over: the notice if nothing was added, then return msg.
ReturnDigest ==
  /\ aggPc = "loop"
  /\ idx > NumSources
  /\ msg' = CloseDigest(msg, anyItems)
  /\ aggPc' = "returned"
  /\ UNCHANGED <<today, idx, anyItems, nowDay, calls, args, inflight, waited, settled>>
  /\ UNCHANGED otherThanAgg

AggNext ==
  \/ GetTodaysMenu
  \/ InvokeFetch
  \/ FetchPending
  \/ FetchResolves
  \/ FetchRejects
  \/ ReturnDigest

InitAgg ==
  /\ AggInit
  /\ ParseOff
  /\ CacheOff
  /\ FunctionsOff

SpecAgg == InitAgg /\ [][AggNext]_vars

(***************************************************************************)
(* getTodaysMenu: properties                                               *)
(***************************************************************************)
\* The source contributed: its fetch resolved with a non-empty line list.
Contributed(i) == settled[i].kind = "resolved" /\ Len(settled[i].items) > 0

\* The text holds the title line of source i.
HasTitle(m, i) == \E p \in 1..Len(m) : m[p] = SourceTitle(i)

\* The text holds the whole block of source i: title, info, the lines, "\n".
HasBlock(m, i, items) ==
  \E p \in 1..Len(m) :
    /\ p + Len(Block(i, items)) - 1 <= Len(m)
    /\ SubSeq(m, p, p + Len(Block(i, items)) - 1) = Block(i, items)

HasNotice(m) == \E p \in 1..Len(m) : m[p] = NoItemsNotice

\* The sources whose title the text holds, in the order of the text.
RECURSIVE TitledSources(_)
TitledSources(m) ==
  IF Len(m) = 0 THEN <<>>
  ELSE LET hit == {i \in SourceIds : m[1] = SourceTitle(i)}
       IN  (IF hit = {} THEN <<>> ELSE <<CHOOSE i \in hit : TRUE>>)
             \o TitledSources(Tail(m))

\* C1: a source whose fetch throws or rejects is an empty contribution:
\* getTodaysMenu never rejects, and in a digest where some source failed the
\* failing source has no block, every source was still invoked, and every
\* source that resolved with lines has its block in the final text.
C1_FailingSourceIsolated ==
  /\ aggPc # "rejected"
  /\ (aggPc = "returned" /\ \E j \in SourceIds : settled[j].kind = "threw") =>
       \A i \in SourceIds :
         /\ calls[i] = 1
         /\ settled[i].kind = "threw" => ~HasTitle(msg, i)
         /\ Contributed(i) => HasBlock(msg, i, settled[i].items)

\* C1 witness: the middle source threw, the first and the last contributed.
C1_Witness ==
  /\ aggPc = "returned"
  /\ settled[2].kind = "threw"
  /\ Contributed(1) /\ Contributed(3)
  /\ HasBlock(msg, 1, settled[1].items) /\ HasBlock(msg, 3, settled[3].items)

\* C2: the final text carries the "No menu items found for today." notice
\* exactly when no source contributed a block.
C2_NoticeIffNothingContributed ==
  aggPc = "returned" =>
    (HasNotice(msg) <=> \A i \in SourceIds : ~Contributed(i))

\* C2 witness: a digest with the notice, one source having failed and one
\* having returned an empty list.
C2_Witness ==
  /\ aggPc = "returned"
  /\ HasNotice(msg)
  /\ \E i, j \in SourceIds :
       /\ settled[i].kind = "threw"
       /\ settled[j].kind = "resolved" /\ settled[j].items = <<>>

\* C3: the final text holds the titled block of a source (title, info, its
\* lines) exactly when its fetch resolved with a non-empty list; otherwise
\* not even its title is in the text.
C3_BlockIffNonEmpty ==
  aggPc = "returned" =>
    \A i \in SourceIds :
      IF Contributed(i)
      THEN HasBlock(msg, i, settled[i].items)
      ELSE ~HasTitle(msg, i)

\* C3 witness: one source resolved with an empty list, another with two lines.
C3_Witness ==
  /\ aggPc = "returned"
  /\ \E i, j \in SourceIds :
       /\ settled[i].kind = "resolved" /\ settled[i].items = <<>>
       /\ ~HasTitle(msg, i)
       /\ Contributed(j) /\ Len(settled[j].items) = 2
       /\ HasBlock(msg, j, settled[j].items)

\* C4: the sources run one at a time in registration order: a fetch is
\* invoked at most once (exactly once by the end), always with the weekday
\* computed at the start, only when every earlier source has settled, and
\* the titles in the text are in registration order.
C4_SequentialInOrder ==
  /\ \A i \in SourceIds :
       /\ calls[i] <= 1
       /\ calls[i] = 1 => args[i] = today
       /\ calls[i] = 1 => \A k \in SourceIds : k < i => settled[k].kind # "none"
       /\ aggPc = "returned" => calls[i] = 1
  /\ Cardinality(inflight) <= 1
  /\ LET t == TitledSources(msg)
     IN  \A p, q \in 1..Len(t) : p < q => t[p] < t[q]

\* C4 witness: all three sources contributed, the first fetch took longer
\* than the second, and midnight passed while the digest was composed.
C4_Witness ==
  /\ aggPc = "returned"
  /\ \A i \in SourceIds : Contributed(i)
  /\ waited[1] > waited[2]
  /\ DAYS[nowDay + 1] # today
  /\ TitledSources(msg) = <<1, 2, 3>>

(***************************************************************************)
(* Text: strings as token sequences, and the regular expressions           *)
(***************************************************************************)
\* \s
IsSpace(c) == c \in {" ", "\n", "\t"}

\* [<endash><emdash>-]
Dashes == {"<endash>", "<emdash>", "-"}

\* \d
Digits == {"0", "1", "2", "3", "4", "5", "6", "7", "8", "9"}

\* kcal under the i flag
IsKcal(c) == c \in {"kcal", "Kcal", "KCAL"}

\* The token at position i, or a token that is no character at all.
At(t, i) == IF i \in 1..Len(t) THEN t[i] ELSE "<end>"

\* How many characters a token stands for.
CharLen(c) == IF c \in {"<endash>", "<emdash>", "<bullet>"} THEN 1 ELSE Len(c)

\* String.prototype.length
RECURSIVE TextLength(_)
TextLength(t) == IF t = <<>> THEN 0 ELSE CharLen(Head(t)) + TextLength(Tail(t))

\* The length of the run of whitespace that starts at position i.
RECURSIVE SpacesFrom(_, _)
SpacesFrom(t, i) == IF IsSpace(At(t, i)) THEN 1 + SpacesFrom(t, i + 1) ELSE 0

\* The length of the run of [\d,] that starts at position i.
RECURSIVE DigitsFrom(_, _)
DigitsFrom(t, i) ==
  IF At(t, i) \in Digits \cup {","} THEN 1 + DigitsFrom(t, i + 1) ELSE 0

\* String.prototype.trim
RECURSIVE TrimEnd(_)
TrimEnd(t) ==
  IF t # <<>> /\ IsSpace(t[Len(t)]) THEN TrimEnd(SubSeq(t, 1, Len(t) - 1)) ELSE t

Trim(t) == TrimEnd(SubSeq(t, SpacesFrom(t, 1) + 1, Len(t)))

\* .replace(/\s+/g, " ")
RECURSIVE CollapseFrom(_, _)
CollapseFrom(t, i) ==
  IF i > Len(t) THEN <<>>
  ELSE IF IsSpace(t[i]) THEN <<" ">> \o CollapseFrom(t, i + SpacesFrom(t, i))
  ELSE <<t[i]>> \o CollapseFrom(t, i + 1)

CollapseSpaces(t) == CollapseFrom(t, 1)

\* String.prototype.includes, token by token
Includes(t, sub) ==
  \E k \in 1..(Len(t) + 1) :
    /\ k + Len(sub) - 1 <= Len(t)
    /\ SubSeq(t, k, k + Len(sub) - 1) = sub

\* DAY_PREFIX_RE = ^(Sunday|...|Saturday)\s*[<endash><emdash>-]\s* : the length
\* of the match at the start of t, 0 when it does not match.
DayPrefixLen(t) ==
  IF At(t, 1) \in DayNames
  THEN LET dash == 2 + SpacesFrom(t, 2)
       IN  IF At(t, dash) \in Dashes
           THEN dash + SpacesFrom(t, dash + 1)
           ELSE 0
  ELSE 0

\* DAY_PREFIX_RE.test(text)
DayPrefixTest(t) == DayPrefixLen(t) > 0

\* text.replace(DAY_PREFIX_RE, "")
RemoveDayPrefix(t) == SubSeq(t, DayPrefixLen(t) + 1, Len(t))

\* /\s*[<emdash><endash>-]\s*~?\d[\d,]*\s*kcal/gi : the length of the match
\* that starts at position i, 0 when there is none.
KcalDashMatch(t, i) ==
  LET dash  == i + SpacesFrom(t, i)
      tilde == dash + 1 + SpacesFrom(t, dash + 1)
      digit == IF At(t, tilde) = "~" THEN tilde + 1 ELSE tilde
      unit  == digit + 1 + DigitsFrom(t, digit + 1)
      kcal  == unit + SpacesFrom(t, unit)
  IN  IF At(t, dash) \in Dashes /\ At(t, digit) \in Digits /\ IsKcal(At(t, kcal))
      THEN kcal + 1 - i
      ELSE 0

\* /\s*\(?\s*~?\d[\d,]*\s*kcal\s*\)?/gi : likewise.
KcalParenMatch(t, i) ==
  LET paren == i + SpacesFrom(t, i)
      inner == IF At(t, paren) = "(" THEN paren + 1 ELSE paren
      tilde == inner + SpacesFrom(t, inner)
      digit == IF At(t, tilde) = "~" THEN tilde + 1 ELSE tilde
      unit  == digit + 1 + DigitsFrom(t, digit + 1)
      kcal  == unit + SpacesFrom(t, unit)
      close == kcal + 1 + SpacesFrom(t, kcal + 1)
  IN  IF At(t, digit) \in Digits /\ IsKcal(At(t, kcal))
      THEN (IF At(t, close) = ")" THEN close + 1 ELSE close) - i
      ELSE 0

\* .replace(<the dash pattern>, ""): every match, left to right.
RECURSIVE RemoveKcalDash(_, _)
RemoveKcalDash(t, i) ==
  IF i > Len(t) THEN <<>>
  ELSE IF KcalDashMatch(t, i) > 0 THEN RemoveKcalDash(t, i + KcalDashMatch(t, i))
  ELSE <<t[i]>> \o RemoveKcalDash(t, i + 1)

\* .replace(<the parenthesis pattern>, "")
RECURSIVE RemoveKcalParen(_, _)
RemoveKcalParen(t, i) ==
  IF i > Len(t) THEN <<>>
  ELSE IF KcalParenMatch(t, i) > 0 THEN RemoveKcalParen(t, i + KcalParenMatch(t, i))
  ELSE <<t[i]>> \o RemoveKcalParen(t, i + 1)

StripCalories(t) == Trim(RemoveKcalParen(RemoveKcalDash(t, 1), 1))

(***************************************************************************)
(* parseExeterSection: the page, the patterns, the loop body               *)
(***************************************************************************)
\* longest page body, in fragments, between the section heading and its end
MaxFragments == 2

\* A sibling node of the page: its tag, its text content, and for a list the
\* text content of each direct li child.
Node(tag, text) == [tag |-> tag, text |-> text, items |-> <<>>]

List(items) == [tag |-> "UL", text |-> <<>>, items |-> items]

COHEN_QUAD == <<"Dakota Cafe (Cohen Quad)">>

\* SKIP_SECTIONS_RE = /^panini$/i
SKIP_SECTIONS_RE(t) == Len(t) = 1 /\ t[1] \in {"Panini", "panini", "PANINI"}

\* SKIP_LINES_RE = /please note.*subject to change|selection of sides and salads/i
\* ("." matches no line break)
SKIP_LINES_RE(t) ==
  \/ \E i, j \in 1..Len(t) :
       /\ i < j
       /\ t[i] \in {"Please note", "please note"}
       /\ t[j] \in {"subject to change", "Subject To Change"}
       /\ \A k \in (i + 1)..(j - 1) : t[k] # "\n"
  \/ \E i \in 1..Len(t) :
       t[i] \in {"selection of sides and salads", "Selection of sides and salads"}

\* A search that keeps the last h2 whose text includes the name.
FindSectionH2Last(d, name) ==
  LET hits == {i \in 1..Len(d) : d[i].tag = "H2" /\ Includes(Trim(d[i].text), name)}
  IN  IF hits = {} THEN 0 ELSE CHOOSE i \in hits : \A j \in hits : i >= j

\* $("h2").each(...): the first h2 whose trimmed text includes sectionName;
\* 0 when there is none (sectionH2 stays null).
FindSectionH2(d, name) ==
  LET hits == {i \in 1..Len(d) : d[i].tag = "H2" /\ Includes(Trim(d[i].text), name)}
  IN  IF hits = {} THEN 0 ELSE CHOOSE i \in hits : \A j \in hits : i <= j

\* if (!sectionH2) return lines;
ReturnsEarlyNever(anchor) == FALSE

ReturnsEarly(anchor) == anchor = 0

\* A loop that runs on to the last sibling, whatever its tag.
LoopContinuesToEnd(d, i) == i <= Len(d)

\* The loop condition: current.length && !current.is("h2")
LoopContinues(d, i) == i <= Len(d) /\ d[i].tag # "H2"

\* current.next().is("ul")
NextIsList(d, i) == i + 1 <= Len(d) /\ d[i + 1].tag = "UL"

\* An isHeading that takes every short paragraph, whatever follows it.
IsHeadingWithoutList(d, i) ==
  LET text == Trim(d[i].text)
  IN  \/ d[i].tag = "H3"
      \/ /\ d[i].tag = "P"
         /\ TextLength(text) < 60
         /\ "<bullet>" \notin {text[k] : k \in 1..Len(text)}
         /\ ~DayPrefixTest(text)

\* isHeading
IsHeading(d, i) ==
  LET text == Trim(d[i].text)
  IN  \/ d[i].tag = "H3"
      \/ /\ d[i].tag = "P"
         /\ TextLength(text) < 60
         /\ "<bullet>" \notin {text[k] : k \in 1..Len(text)}
         /\ ~DayPrefixTest(text)
         /\ NextIsList(d, i)

\* Which branch of the loop body the node takes.
NodeKind(d, i) ==
  IF d[i].tag \in {"H3", "P"}
  THEN IF Trim(d[i].text) = <<>> THEN "empty"
       ELSE IF IsHeading(d, i) /\ SKIP_SECTIONS_RE(Trim(d[i].text)) THEN "skipHeading"
       ELSE IF IsHeading(d, i) THEN "heading"
       ELSE "paragraph"
  ELSE IF d[i].tag = "UL" THEN "list"
  ELSE "other"

\* `\n*${text}*`
HeadingLine(text) == <<"\n*">> \o text \o <<"*">>

\* `<bullet> ${text}`
BulletLine(text) == <<"<bullet>", " ">> \o text

\* const liText = $(li).text().trim().replace(/\s+/g, " ")
LiText(raw) == CollapseSpaces(Trim(raw))

\* The body of the li callback: the lines one list item pushes (one or none).
ItemLineAnyDay(liText, day) ==
  IF DayPrefixTest(liText)
  THEN <<BulletLine(StripCalories(RemoveDayPrefix(liText)))>>
  ELSE <<BulletLine(StripCalories(liText))>>

ItemLineWeekdaysOnly(liText, day) ==
  IF DayPrefixTest(liText)
  THEN IF liText[1] = day
       THEN <<BulletLine(StripCalories(RemoveDayPrefix(liText)))>>
       ELSE <<>>
  ELSE IF day \in {"Saturday", "Sunday"} THEN <<>>
       ELSE <<BulletLine(StripCalories(liText))>>

ItemLine(liText, day) ==
  IF DayPrefixTest(liText)
  THEN IF liText[1] = day
       THEN <<BulletLine(StripCalories(RemoveDayPrefix(liText)))>>
       ELSE <<>>
  ELSE <<BulletLine(StripCalories(liText))>>

\* A pushed line with the node and the list item (0: none) it came from.
Tagged(ls, i, k) == [j \in 1..Len(ls) |-> [text |-> ls[j], node |-> i, item |-> k]]

\* current.find("> li").each(...)
RECURSIVE ListLines(_, _, _, _)
ListLines(items, k, i, day) ==
  IF k > Len(items) THEN <<>>
  ELSE Tagged(ItemLine(LiText(items[k]), day), i, k) \o ListLines(items, k + 1, i, day)

\* The skipUntilNext flag after the node.
SkipAfter(d, i, skip) ==
  IF NodeKind(d, i) = "skipHeading" THEN TRUE
  ELSE IF NodeKind(d, i) = "heading" THEN FALSE
  ELSE skip

\* Whether a list is walked: tag === "UL" && !skipUntilNext
ListWalkedAlways(skip) == TRUE

ListWalked(skip) == ~skip

\* A loop body that pushes a paragraph in the skipping state as well.
PushedAlsoWhileSkipping(d, i, skip, day) ==
  LET kind == NodeKind(d, i)
      text == Trim(d[i].text)
  IN  IF kind = "heading" THEN Tagged(<<HeadingLine(text)>>, i, 0)
      ELSE IF kind = "paragraph" /\ ~SKIP_LINES_RE(text)
        THEN Tagged(<<text>>, i, 0)
      ELSE IF kind = "list" /\ ListWalked(skip) THEN ListLines(d[i].items, 1, i, day)
      ELSE <<>>

\* The lines the node pushes.
Pushed(d, i, skip, day) ==
  LET kind == NodeKind(d, i)
      text == Trim(d[i].text)
  IN  IF kind = "heading" THEN Tagged(<<HeadingLine(text)>>, i, 0)
      ELSE IF kind = "paragraph" /\ ~skip /\ ~SKIP_LINES_RE(text)
        THEN Tagged(<<text>>, i, 0)
      ELSE IF kind = "list" /\ ListWalked(skip) THEN ListLines(d[i].items, 1, i, day)
      ELSE <<>>

TextsOf(tagged) == [j \in 1..Len(tagged) |-> tagged[j].text]

OriginsOf(tagged) == [j \in 1..Len(tagged) |-> [node |-> tagged[j].node, item |-> tagged[j].item]]

\* The whole loop, from node i on.
RECURSIVE WalkFrom(_, _, _, _)
WalkFrom(d, i, skip, day) ==
  IF ~LoopContinues(d, i) THEN <<>>
  ELSE Pushed(d, i, skip, day) \o WalkFrom(d, i + 1, SkipAfter(d, i, skip), day)

\* parseExeterSection($, sectionName, today), with the origin of each line
ParseExeterSection(d, name, day) ==
  LET anchor == FindSectionH2(d, name)
  IN  IF anchor = 0 THEN <<>> ELSE WalkFrom(d, anchor + 1, FALSE, day)

(***************************************************************************)
(* parseExeterSection: the pages it is run on                              *)
(***************************************************************************)
MainCourse == <<"Main Course">>

MondayPasta == <<"Monday", " ", "<endash>", " ", "Pasta">>

TuesdayFish == <<"Tuesday", " ", "<endash>", " ", "Fish">>

\* <ul> of day-scoped items only
DayList == List(<<MondayPasta, TuesdayFish>>)

\* <ul> of mixed items: unscoped and scoped, with calorie annotations, with
\* the white space of the markup
MixedList ==
  List(<< <<"\n", " ", "Salad", " ", "\n", " ", "Bar", "\n">>,
          <<"Monday", "-", "Soup", " ", "<emdash>", " ", "~", "1", "2", "0", "kcal">>,
          <<"Friday", " ", " ", "<emdash>", "Burger", " ", "(", "4", "5", "0", " ", "kcal", ")">>,
          <<"Mondays", " ", "<endash>", " ", "Tuna Melt">> >>)

\* The pieces a section body is made of.
Fragments ==
  { <<Node("H3", MainCourse)>>,
    <<Node("H3", <<"panini">>)>>,
    <<Node("P", <<"\n", "Panini", " ">>)>>,
    <<Node("P", MainCourse)>>,
    <<Node("P", <<"Please note", ": all menu items are ", "subject to change">>)>>,
    <<Node("P", <<" ", "\n">>)>>,
    <<Node("H3", <<" ">>)>>,
    <<Node("DIV", <<"Opening hours">>)>>,
    <<DayList>>,
    <<MixedList>>,
    <<Node("H3", MainCourse), DayList>>,
    <<Node("P", <<"Panini">>), MixedList>> }

RECURSIVE Bodies(_)
Bodies(n) ==
  IF n = 0 THEN {<<>>}
  ELSE Bodies(n - 1) \cup {b \o f : b \in Bodies(n - 1), f \in Fragments}

\* What precedes the body: other sections and the section's own h2.
Heads ==
  { <<Node("H2", <<"Another Section">>), Node("P", <<"Some other content">>),
      Node("H2", COHEN_QUAD)>>,
    <<Node("H2", <<"\n", " ">> \o COHEN_QUAD \o <<" ", "Menu", "\n">>)>> }

\* What follows it: nothing, or the next section.
Tails ==
  { <<>>,
    <<Node("H2", <<"Hall">>), Node("P", <<"Hall content here">>), MixedList>> }

\* A second section whose h2 contains the name as well.
NamedAgain == <<Node("H2", COHEN_QUAD \o <<" ", "Evening">>), Node("H3", <<"Evening">>)>>

\* Paragraphs before a list that miss one condition of a heading each: 60
\* characters or more, a bullet character, a weekday prefix.
LongParagraph ==
  Node("P", <<"A selection of freshly prepared dishes from our kitchen, served daily">>)

BulletParagraph == Node("P", <<"Soup", " ", "<bullet>", " ", "Salad">>)

OddParagraphs == {LongParagraph, BulletParagraph, Node("P", MondayPasta)}

Docs ==
  {h \o b \o t : h \in Heads, b \in Bodies(MaxFragments), t \in Tails}
    \cup {h \o f \o NamedAgain : h \in Heads, f \in Fragments}
    \cup {h \o <<p, l>> : h \in Heads, p \in OddParagraphs, l \in {DayList, MixedList}}

SectionNames == {COHEN_QUAD, <<"Nonexistent Cafe">>}

(***************************************************************************)
(* parseExeterSection: the actions                                         *)
(***************************************************************************)
\* No getTodaysMenu call is modelled.
AggOff ==
  /\ aggPc = "off"
  /\ today = "none"
  /\ idx = 0
  /\ msg = <<>>
  /\ anyItems = FALSE
  /\ nowDay = 0
  /\ calls = [i \in SourceIds |-> 0]
  /\ args = [i \in SourceIds |-> "none"]
  /\ inflight = {}
  /\ waited = [i \in SourceIds |-> 0]
  /\ settled = [i \in SourceIds |-> [kind |-> "none", items |-> <<>>]]

ParseInit ==
  /\ parsePc = "idle"
  /\ doc \in Docs
  /\ sectionName \in SectionNames
  /\ ptoday \in DayNames
  /\ current = 0
  /\ skipUntilNext = FALSE
  /\ lines = <<>>
  /\ origin = <<>>

\* Entry: the search for the section's h2, the early return, current = next().
ParseStart ==
  /\ parsePc = "idle"
  /\ LET anchor == FindSectionH2(doc, sectionName)
     IN  IF ReturnsEarly(anchor)
         THEN parsePc' = "returned" /\ UNCHANGED current
         ELSE IF anchor = 0
         THEN parsePc' = "threw" /\ UNCHANGED current   \* null.next()
         ELSE parsePc' = "walk" /\ current' = anchor + 1
  /\ skipUntilNext' = FALSE
  /\ UNCHANGED <<doc, sectionName, ptoday, lines, origin>>
  /\ UNCHANGED otherThanParse

\* One pass of the loop body: the pushed lines, the flag, current = next().
LoopBody ==
  /\ LET pushed == Pushed(doc, current, skipUntilNext, ptoday)
     IN  /\ lines' = lines \o TextsOf(pushed)
         /\ origin' = origin \o OriginsOf(pushed)
  /\ skipUntilNext' = SkipAfter(doc, current, skipUntilNext)
  /\ current' = current + 1
  /\ UNCHANGED <<parsePc, doc, sectionName, ptoday>>
  /\ UNCHANGED otherThanParse

\* The loop is at a node that takes branch `kind`.
Visiting(kind) ==
  /\ parsePc = "walk"
  /\ LoopContinues(doc, current)
  /\ NodeKind(doc, current) = kind

\* h3 or p with no text: continue
VisitEmptyText ==
  /\ Visiting("empty")
  /\ LoopBody

\* a heading matching SKIP_SECTIONS_RE
VisitSkipHeading ==
  /\ Visiting("skipHeading")
  /\ LoopBody

\* any other heading
VisitHeading ==
  /\ Visiting("heading")
  /\ LoopBody

\* a paragraph that is no heading
VisitParagraph ==
  /\ Visiting("paragraph")
  /\ LoopBody

\* a ul
VisitList ==
  /\ Visiting("list")
  /\ LoopBody

\* any other element
VisitOther ==
  /\ Visiting("other")
  /\ LoopBody

\* The loop ends at an h2 or after the last sibling: return lines.
ParseReturn ==
  /\ parsePc = "walk"
  /\ ~LoopContinues(doc, current)
  /\ parsePc' = "returned"
  /\ UNCHANGED <<doc, sectionName, ptoday, current, skipUntilNext, lines, origin>>
  /\ UNCHANGED otherThanParse

ParseNext ==
  \/ ParseStart
  \/ VisitEmptyText
  \/ VisitSkipHeading
  \/ VisitHeading
  \/ VisitParagraph
  \/ VisitList
  \/ VisitOther
  \/ ParseReturn

InitParse ==
  /\ ParseInit
  /\ AggOff
  /\ CacheOff
  /\ FunctionsOff

SpecParse == InitParse /\ [][ParseNext]_vars

(***************************************************************************)
(* parseExeterSection: properties                                          *)
(***************************************************************************)
\* The section's h2 and the end of the section: the next h2 or the end.
Anchor == FindSectionH2(doc, sectionName)

SectionEnd ==
  LET later == {i \in (Anchor + 1)..Len(doc) : doc[i].tag = "H2"}
  IN  IF later = {} THEN Len(doc) + 1 ELSE CHOOSE i \in later : \A j \in later : i <= j

SectionBody == SubSeq(doc, Anchor + 1, SectionEnd - 1)

InSection(n) == Anchor > 0 /\ Anchor < n /\ n < SectionEnd

\* A heading with text: what the loop body classifies as a heading.
TextHeading(d, i) == IsHeading(d, i) /\ Trim(d[i].text) # <<>>

\* Node n lies in a skipped part: the last heading before it is a skipped one.
InSkippedPart(n) ==
  \E h \in (Anchor + 1)..(n - 1) :
    /\ TextHeading(doc, h) /\ SKIP_SECTIONS_RE(Trim(doc[h].text))
    /\ \A g \in (h + 1)..(n - 1) : ~TextHeading(doc, g)

\* A list the walker handles.
WalkedList(n) == InSection(n) /\ doc[n].tag = "UL" /\ ~InSkippedPart(n)

\* Where in lines the item k of node n was pushed.
PushedAt(n, k) == {p \in 1..Len(origin) : origin[p] = [node |-> n, item |-> k]}

\* C6: when no h2 of the page contains the section name, parseExeterSection
\* returns an empty line list and does not throw.
C6_AbsentSectionIsEmpty ==
  /\ parsePc # "threw"
  /\ (parsePc # "idle" /\ \A i \in 1..Len(doc) :
                             doc[i].tag = "H2" => ~Includes(doc[i].text, sectionName)) =>
       (parsePc = "returned" /\ lines = <<>>)

\* C6 witness: the call returned nothing on a page that has h2 sections and
\* lists, none of them named as asked.
C6_Witness ==
  /\ parsePc = "returned"
  /\ sectionName = <<"Nonexistent Cafe">>
  /\ lines = <<>>
  /\ \E i, j \in 1..Len(doc) : doc[i].tag = "H2" /\ doc[j] = MixedList

\* The rule for day-scoped items, with the text an emitted item shows left open.
DayScopedRule(Shown(_)) ==
  parsePc = "returned" =>
    \A n \in 1..Len(doc) :
      WalkedList(n) =>
        \A k \in 1..Len(doc[n].items) :
          LET t == LiText(doc[n].items[k])
          IN  DayPrefixTest(t) =>
                /\ (PushedAt(n, k) # {}) <=> (t[1] = ptoday)
                /\ Cardinality(PushedAt(n, k)) <= 1
                /\ \A p \in PushedAt(n, k) : lines[p] = <<"<bullet>", " ">> \o Shown(t)

\* The example: "Main Course", then "Monday - Pasta" and "Tuesday - Fish".
MainCourseExample ==
  (/\ parsePc = "returned"
   /\ Anchor > 0
   /\ SectionBody \in {<<Node("H3", MainCourse), DayList>>, <<Node("P", MainCourse), DayList>>}
   /\ ptoday = "Monday") =>
     lines = << <<"\n*", "Main Course", "*">>, <<"<bullet>", " ", "Pasta">> >>

\* C7 as stated: a day-scoped item of a non-skipped list is emitted iff its
\* weekday is today, and the line is the bullet followed by the text with the
\* prefix removed.
C7_Original ==
  /\ DayScopedRule(RemoveDayPrefix)
  /\ MainCourseExample

\* C7 as amended: a day-scoped item of a non-skipped list is emitted iff its
\* weekday is today, and the line is the bullet followed by the text with the
\* prefix removed and the calorie annotations stripped; the example yields
\* exactly the heading line and the Pasta bullet.
C7_DayScopedItems ==
  /\ DayScopedRule(LAMBDA t : StripCalories(RemoveDayPrefix(t)))
  /\ MainCourseExample

\* C7 witness: on Monday, "Monday-Soup <emdash> ~120kcal" was emitted as the
\* Soup bullet and the Friday item of the same list was not.
C7_Witness ==
  /\ parsePc = "returned"
  /\ ptoday = "Monday"
  /\ \E n \in 1..Len(doc) :
       /\ WalkedList(n)
       /\ doc[n] = MixedList
       /\ \E p \in PushedAt(n, 2) : lines[p] = <<"<bullet>", " ", "Soup">>
       /\ PushedAt(n, 3) = {}

\* The lines that came from list items without a weekday prefix.
RECURSIVE UnscopedOnly(_, _)
UnscopedOnly(tagged, d) ==
  IF tagged = <<>> THEN <<>>
  ELSE LET e == Head(tagged)
       IN  (IF e.item > 0 /\ ~DayPrefixTest(LiText(d[e.node].items[e.item]))
            THEN <<e>> ELSE <<>>) \o UnscopedOnly(Tail(tagged), d)

\* The result of the call that ran, each line with its origin.
ResultTagged ==
  [j \in 1..Len(lines) |->
     [text |-> lines[j], node |-> origin[j].node, item |-> origin[j].item]]

SkipRule(heading) ==
  LET text == Trim(doc[current].text)
  IN  /\ (heading /\ SKIP_SECTIONS_RE(text)) =>
           (lines' = lines /\ skipUntilNext')
      /\ (skipUntilNext /\ ~heading) =>
           (lines' = lines /\ skipUntilNext')
      /\ (heading /\ ~SKIP_SECTIONS_RE(text)) =>
           (~skipUntilNext' /\ lines' = Append(lines, <<"\n*">> \o text \o <<"*">>))
      /\ (~skipUntilNext /\ doc[current].tag = "UL") =>
           Len(lines') >= Len(lines)
             + Cardinality({k \in 1..Len(doc[current].items) :
                              ~DayPrefixTest(LiText(doc[current].items[k]))})

AtNode == parsePc = "walk" /\ LoopContinues(doc, current)

\* C9 as stated: every h3, and every paragraph acting as a heading, either
\* starts a skipped part without a line or ends one and is emitted.
C9_Original == [][AtNode => SkipRule(IsHeading(doc, current))]_vars

\* C9 as amended: a heading with non-empty text that matches the skip
\* pattern emits no line and starts skipping; while skipping no paragraph and
\* no list item produces a line; the next heading with non-empty text that
\* does not match clears the state and is emitted, and lists after it
\* contribute; an h3 or paragraph with empty text changes nothing.
C9_SkipSection == [][AtNode => SkipRule(TextHeading(doc, current))]_vars

\* C9 witness: "Panini" and its list gave no line, "Main Course" and its
\* list after it did.
C9_Witness ==
  /\ parsePc = "returned"
  /\ ptoday = "Monday"
  /\ Anchor > 0
  /\ SectionBody = <<Node("P", <<"Panini">>), MixedList, Node("H3", MainCourse), DayList>>
  /\ lines = << <<"\n*", "Main Course", "*">>, <<"<bullet>", " ", "Pasta">> >>

(***************************************************************************)
(* blavatnik.js, schwarzman.js: the weekly caches                          *)
(***************************************************************************)
\* instants of a day the clock tells apart
SlotsPerDay == 2
\* instants the clock runs on from its start
MaxTicks == 3
\* most image attachments of one mail
MaxAttachments == 2

Sources == {"blavatnik", "schwarzman"}

\* The digest requests whose fetches are followed: index.js runs one from
\* the scheduled send (and one per "!menu" command).
Callers == {"cron"}

WEEKDAYS == <<"Monday", "Tuesday", "Wednesday", "Thursday", "Friday">>

SKIP_CATEGORIES == {"toppings", "sauces & pickles"}

\* The clock starts at 00:00 UTC of the Sunday that ends the first week.
StartInstant == Len(DAYS) * SlotsPerDay

LastInstant == StartInstant + MaxTicks

\* ---- Date ----
\* The local calendar date of an instant (what toDateString shows), as a day
\* number; day 0 is a Sunday.
ToDateString(t) == (t + tz) \div SlotsPerDay

\* Date.prototype.getDay(): 0 = Sunday
GetDay(t) == ToDateString(t) % Len(DAYS)

\* getWeekMonday without the case of Sunday: diff = 1 - day throughout.
GetWeekMondayForward(t) ==
  LET day == GetDay(t)
      diff == 1 - day
  IN  (ToDateString(t) + diff) * SlotsPerDay - tz

\* getWeekMonday(date): the instant of local midnight of the week's Monday.
GetWeekMonday(t) ==
  LET day == GetDay(t)
      diff == IF day = 0 THEN -6 ELSE 1 - day
  IN  (ToDateString(t) + diff) * SlotsPerDay - tz

\* toISOString() of an instant, as JSON stores it; a missing or empty
\* weekCommencing; one that new Date() cannot read.
ToISOString(t) == [kind |-> "iso", at |-> t]

NoWeek == [kind |-> "missing", at |-> 0]

BadWeek == [kind |-> "garbage", at |-> 0]

\* ---- the cache file ----
\* kind: "absent" | "corrupt" (not JSON) | "null" (the JSON text null) |
\* "json" (an object); week: its weekCommencing; menu: the name of its menu
\* value, "missing" without one, "scalar" for a number.  savedAt is
\* history: when saveMenu wrote it.
File(kind, week, menu, at) ==
  [kind |-> kind, week |-> week, menu |-> menu, savedAt |-> at]

Absent == File("absent", NoWeek, "missing", 0)

Corrupt == File("corrupt", NoWeek, "missing", 0)

JsonNull == File("null", NoWeek, "missing", 0)

\* A payload as the first version of saveMenu wrote it: stamped with the
\* instant of the write (weekOf: new Date().toISOString()).
PayloadStamped(menu, t) == File("json", ToISOString(t), menu, t)

\* A payload as saveMenu writes it at instant t.
Payload(menu, t) == File("json", ToISOString(GetWeekMonday(t)), menu, t)

\* ---- blavatnik.js: menus and formatting ----
DayMenu(meat, veg, side) == [present |-> TRUE, meat |-> meat, veg |-> veg, side |-> side]

NoDayMenu == [present |-> FALSE, meat |-> "", veg |-> "", side |-> ""]

\* The menu values by name: SAMPLE_MENU, cacheWithGap and emptyCache of the
\* tests; any other value (a number) has no day.
BlavatnikMenu(name) ==
  CASE name = "sample" ->
         [d \in {WEEKDAYS[i] : i \in 1..Len(WEEKDAYS)} |->
            DayMenu("Grilled Chicken", "Tomato Soup", "Side Salad")]
    [] name = "gap" ->
         ("Monday" :> DayMenu("", "", "") @@ "Tuesday" :> DayMenu("Lentil Dhal", "", ""))
    [] name = "blank" ->
         ("Monday" :> DayMenu("", "", "") @@ "Tuesday" :> DayMenu("", "", ""))
    [] OTHER -> <<>>

DayMenuOf(m, day) == IF day \in DOMAIN m THEN m[day] ELSE NoDayMenu

\* A formatDayMenu that numbers the lines it gives 1, 2, 3 as they come.
FormatDayMenuRenumbered(dayMenu) ==
  LET dishes == (IF dayMenu.meat # "" THEN <<dayMenu.meat>> ELSE <<>>)
                  \o (IF dayMenu.veg # "" THEN <<dayMenu.veg>> ELSE <<>>)
                  \o (IF dayMenu.side # "" THEN <<dayMenu.side>> ELSE <<>>)
  IN  IF ~dayMenu.present THEN <<>>
      ELSE [i \in 1..Len(dishes) |-> <<"1. ", "2. ", "3. ">>[i] \o dishes[i]]

\* formatDayMenu(dayMenu)
FormatDayMenu(dayMenu) ==
  IF ~dayMenu.present THEN <<>>
  ELSE (IF dayMenu.meat # "" THEN <<"1. " \o dayMenu.meat>> ELSE <<>>)
       \o (IF dayMenu.veg # "" THEN <<"2. " \o dayMenu.veg>> ELSE <<>>)
       \o (IF dayMenu.side # "" THEN <<"3. " \o dayMenu.side>> ELSE <<>>)

\* cached.menu[day] && (cached.menu[day].meat || cached.menu[day].veg)
HasMeatOrVeg(m, day) ==
  LET dayMenu == DayMenuOf(m, day)
  IN  dayMenu.present /\ (dayMenu.meat # "" \/ dayMenu.veg # "")

\* A fallback that names Monday whether or not any day has a dish.
FallbackDayMonday(m, day) == WEEKDAYS[1]

\* The two WEEKDAYS.find(...) of the fallback; "" when neither finds a day.
FallbackDay(m, day) ==
  LET idxs == 1..Len(WEEKDAYS)
      todayIdx == IF \E i \in idxs : WEEKDAYS[i] = day
                  THEN CHOOSE i \in idxs : WEEKDAYS[i] = day ELSE 0
      later == {i \in idxs : i > todayIdx /\ HasMeatOrVeg(m, WEEKDAYS[i])}
      any == {i \in idxs : HasMeatOrVeg(m, WEEKDAYS[i])}
      first(S) == CHOOSE i \in S : \A j \in S : i <= j
  IN  IF later # {} THEN WEEKDAYS[first(later)]
      ELSE IF any # {} THEN WEEKDAYS[first(any)]
      ELSE ""

\* A read that puts the label before today's lines as well.
ReadMenuAlwaysLabelled(m, day) ==
  <<"_Next available: " \o day \o "_">> \o FormatDayMenu(DayMenuOf(m, day))

\* The try block of the read, from cached.menu on: today's lines if there
\* are any, otherwise the label and the lines of the fallback day, or
\* nothing.
ReadMenu(m, day) ==
  LET ls == FormatDayMenu(DayMenuOf(m, day))
      fallbackDay == FallbackDay(m, day)
  IN  IF ls # <<>> THEN ls
      ELSE IF fallbackDay = "" THEN <<>>
      ELSE <<"_Next available: " \o fallbackDay \o "_">>
             \o FormatDayMenu(DayMenuOf(m, fallbackDay))

\* The read of fetchBlavatnik: no file gives [], and so does every throw
\* inside the try (JSON.parse, cached.menu of null, cached.menu[today] of
\* undefined).
ReadBlavatnik(f, day) ==
  IF f.kind # "json" \/ f.menu = "missing" THEN <<>>
  ELSE ReadMenu(BlavatnikMenu(f.menu), day)

\* menuData && WEEKDAYS.some(day => menuData[day] && (meat || veg || side))
HasItems(name) ==
  LET m == BlavatnikMenu(name)
  IN  \E i \in 1..Len(WEEKDAYS) :
        LET dayMenu == DayMenuOf(m, WEEKDAYS[i])
        IN  dayMenu.present
              /\ (dayMenu.meat # "" \/ dayMenu.veg # "" \/ dayMenu.side # "")

\* ---- schwarzman.js: menus and formatting ----
Category(category, isArray, items) ==
  [category |-> category, isArray |-> isArray, items |-> items]

\* The menu values by name: a cut of the tests' SAMPLE_MENU; an object whose
\* one value is not an array; any other value (an empty object, a number)
\* has no entry.
SchwarzmanMenu(name) ==
  CASE name = "sample" ->
         << Category("Base", TRUE, <<"Coconut Jasmin Rice">>),
            Category("Sides", TRUE, <<>>),
            Category("Toppings", TRUE, <<"Crispy Onions">>),
            Category("Protein", TRUE, <<"Creamy Meatball Pasta", "Tempeh Korma curry">>) >>
    [] name = "note" -> << Category("Note", FALSE, <<>>) >>
    [] OTHER -> <<>>

\* String.prototype.toLowerCase() on the category names in use
ToLowerCase(category) ==
  CASE category = "Base" -> "base"
    [] category = "Sides" -> "sides"
    [] category = "Toppings" -> "toppings"
    [] category = "Protein" -> "protein"
    [] category = "Note" -> "note"
    [] OTHER -> category

RECURSIVE Bullets(_)
Bullets(items) ==
  IF items = <<>> THEN <<>>
  ELSE <<"<bullet> " \o Head(items)>> \o Bullets(Tail(items))

RECURSIVE FormatCategories(_)
FormatCategories(entries) ==
  IF entries = <<>> THEN <<>>
  ELSE LET e == Head(entries)
       IN  (IF ~e.isArray \/ e.items = <<>> THEN <<>>
            ELSE IF ToLowerCase(e.category) \in SKIP_CATEGORIES THEN <<>>
            ELSE <<"", "*" \o e.category \o "*">> \o Bullets(e.items))
           \o FormatCategories(Tail(entries))

\* formatMenu(menuData)
FormatMenu(menu) == <<"*1 Base + 1 Protein + 2 Sides*">> \o FormatCategories(menu)

\* The read of fetchSchwarzman: no file gives [], and so does every throw
\* inside the try (JSON.parse, cached.menu of null, Object.entries(undefined)).
ReadSchwarzman(f) ==
  IF f.kind # "json" \/ f.menu = "missing" THEN <<>>
  ELSE FormatMenu(SchwarzmanMenu(f.menu))

\* menuData && Object.keys(menuData).length > 0
HasCategories(name) == SchwarzmanMenu(name) # <<>>

\* ---- both sources ----
ReadCache(s, f, day) ==
  IF s = "blavatnik" THEN ReadBlavatnik(f, day) ELSE ReadSchwarzman(f)

\* What parseMenuImage may return: null ("unparseable") or a JSON value.
VisionValues(s) ==
  IF s = "blavatnik" THEN {"unparseable", "scalar", "blank", "gap", "sample"}
  ELSE {"unparseable", "scalar", "note", "sample"}

\* A test that keeps every value that is not null.
UsableUnlessNull(s, name) == name # "unparseable"

\* Whether the loop over the attachments keeps the value and breaks.
Usable(s, name) == IF s = "blavatnik" THEN HasItems(name) ELSE HasCategories(name)

\* The age test of the first version: Date.now() - written < 7 days.
IsFreshByAge(f, t) ==
  /\ f.kind = "json"
  /\ f.week.kind = "iso"
  /\ t - f.savedAt < Len(DAYS) * SlotsPerDay

\* The week test: the file exists, parses to an object, has a weekCommencing,
\* and that date's toDateString() equals getWeekMonday().toDateString().
IsFresh(f, t) ==
  /\ f.kind = "json"
  /\ f.week.kind = "iso"
  /\ ToDateString(f.week.at) = ToDateString(GetWeekMonday(t))

\* ---- the fetch of one caller ----
\* catch (err) of checkForNew*Menu logs the error; the fetch goes on to read.
CatchImapRethrows == "rejected"

\* A catch that starts the mailbox session over.
CatchImapRetries == "connecting"

CatchImapError == "read"

\* A payload of this week, or of the week before (the tests' staleCache).
EarlierPayload(menu, monday) == File("json", ToISOString(monday), menu, monday)

InitialFiles(s) ==
  LET thisWeek == GetWeekMonday(now)
      lastWeek == GetWeekMonday(now) - Len(DAYS) * SlotsPerDay
  IN  { Absent, Corrupt, JsonNull,
        File("json", NoWeek, "missing", 0),
        File("json", BadWeek, "sample", 0),
        EarlierPayload("missing", thisWeek),
        EarlierPayload("scalar", thisWeek),
        EarlierPayload("sample", lastWeek),
        EarlierPayload("sample", thisWeek) }
      \cup (IF s = "blavatnik" THEN {EarlierPayload("gap", thisWeek)} ELSE {})

Idle(v) == [c \in Callers |-> v]

CacheInit ==
  /\ now = StartInstant
  /\ tz \in {-1, 0, 1}
  /\ creds \in BOOLEAN
  /\ file \in {f \in [Sources -> UNION {InitialFiles(s) : s \in Sources}] :
                 \A s \in Sources : f[s] \in InitialFiles(s)}
  /\ cpc = Idle("idle")
  /\ csrc = Idle("none")
  /\ ctoday = Idle("none")
  /\ left = Idle(0)
  /\ lock = Idle("none")
  /\ result = Idle(<<>>)
  /\ refreshCalls = Idle(0)
  /\ outcome = Idle("none")
  /\ parsed = Idle("none")

\* Time passes.
Tick ==
  /\ now < LastInstant
  /\ now' = now + 1
  /\ UNCHANGED <<parsed, tz, creds, file, cpc, csrc, ctoday, left, lock, result,
                 refreshCalls, outcome>>
  /\ UNCHANGED otherThanCache

Goes(c, pc, how) ==
  /\ cpc' = [cpc EXCEPT ![c] = pc]
  /\ outcome' = [outcome EXCEPT ![c] = how]

\* An exception inside the outer try of checkForNew*Menu.
Throws(c, how) == Goes(c, CatchImapError, how)

\* fetchBlavatnik / fetchSchwarzman up to the first await: the freshness
\* test, then either the whole read (nothing is awaited on a fresh cache) or
\* the start of checkForNew*Menu, which returns at once without credentials.
Fetch(c) ==
  /\ cpc[c] = "idle"
  /\ \E s \in Sources :
       /\ csrc' = [csrc EXCEPT ![c] = s]
       /\ ctoday' = [ctoday EXCEPT ![c] = DAYS[GetDay(now) + 1]]
       /\ IF IsFresh(file[s], now)
          THEN /\ refreshCalls' = [refreshCalls EXCEPT ![c] = 0]
               /\ result' = [result EXCEPT ![c] =
                               ReadCache(s, file[s], DAYS[GetDay(now) + 1])]
               /\ Goes(c, "done", "fresh")
          ELSE /\ refreshCalls' = [refreshCalls EXCEPT ![c] = 1]
               /\ UNCHANGED result
               /\ IF creds THEN Goes(c, "connecting", "pending")
                  ELSE Goes(c, "read", "noCredentials")
  /\ UNCHANGED <<parsed, now, tz, creds, file, left, lock>>
  /\ UNCHANGED otherThanCache

\* await client.connect()
Connect(c) ==
  /\ cpc[c] = "connecting"
  /\ \E ok \in BOOLEAN :
       IF ok THEN Goes(c, "locking", "pending") ELSE Throws(c, "imapError")
  /\ UNCHANGED <<parsed, now, tz, creds, file, csrc, ctoday, left, lock, result, refreshCalls>>
  /\ UNCHANGED otherThanCache

\* await client.getMailboxLock("INBOX")
GetMailboxLock(c) ==
  /\ cpc[c] = "locking"
  /\ \E ok \in BOOLEAN :
       IF ok THEN /\ Goes(c, "searching", "pending")
                  /\ lock' = [lock EXCEPT ![c] = "held"]
       ELSE /\ Throws(c, "imapError")
            /\ UNCHANGED lock
  /\ UNCHANGED <<parsed, now, tz, creds, file, csrc, ctoday, left, result, refreshCalls>>
  /\ UNCHANGED otherThanCache

\* finally { lock.release() }: a held lock is released; releasing once more
\* would show as "twice".
Release(c) ==
  lock' = [lock EXCEPT ![c] = IF lock[c] = "held" THEN "released" ELSE "twice"]

\* The search as it would be if finding no mail removed the cache file.
SearchClearing(c) ==
  /\ cpc[c] = "searching"
  /\ \E r \in {"throws", "none", "found"} :
       CASE r = "throws" -> Throws(c, "imapError") /\ Release(c) /\ UNCHANGED file
         [] r = "none" -> /\ Goes(c, "read", "noEmail") /\ Release(c)
                          /\ file' = [file EXCEPT ![csrc[c]] = Absent]
         [] r = "found" -> Goes(c, "downloading", "pending") /\ UNCHANGED <<lock, file>>
  /\ UNCHANGED <<parsed, now, tz, creds, csrc, ctoday, left, result, refreshCalls>>
  /\ UNCHANGED otherThanCache

\* await client.search(...): it throws, finds nothing (return), or finds mail.
Search(c) ==
  /\ cpc[c] = "searching"
  /\ \E r \in {"throws", "none", "found"} :
       CASE r = "throws" -> Throws(c, "imapError") /\ Release(c)
         [] r = "none" -> Goes(c, "read", "noEmail") /\ Release(c)
         [] r = "found" -> Goes(c, "downloading", "pending") /\ UNCHANGED lock
  /\ UNCHANGED <<parsed, now, tz, creds, file, csrc, ctoday, left, result, refreshCalls>>
  /\ UNCHANGED otherThanCache

\* A download whose exception leaves the inner try without its finally.
DownloadLeaking(c) ==
  /\ cpc[c] = "downloading"
  /\ \E ok \in BOOLEAN :
       IF ok THEN Goes(c, "parsing", "pending") /\ UNCHANGED lock
       ELSE Throws(c, "imapError") /\ UNCHANGED lock
  /\ UNCHANGED <<parsed, now, tz, creds, file, csrc, ctoday, left, result, refreshCalls>>
  /\ UNCHANGED otherThanCache

\* await client.download(uid, ...)
Download(c) ==
  /\ cpc[c] = "downloading"
  /\ \E ok \in BOOLEAN :
       IF ok THEN Goes(c, "parsing", "pending") /\ UNCHANGED lock
       ELSE Throws(c, "imapError") /\ Release(c)
  /\ UNCHANGED <<parsed, now, tz, creds, file, csrc, ctoday, left, result, refreshCalls>>
  /\ UNCHANGED otherThanCache

\* await simpleParser(raw.content), the filter on image attachments, and the
\* call of parseMenuImage on the first of them.
ParseMail(c) ==
  /\ cpc[c] = "parsing"
  /\ \/ /\ Throws(c, "mailError") /\ Release(c)
        /\ UNCHANGED left
     \/ \E n \in 0..MaxAttachments :
          IF n = 0
          THEN /\ Goes(c, "read", "noAttachment") /\ Release(c)
               /\ UNCHANGED left
          ELSE /\ Goes(c, "vision", "pending")
               /\ left' = [left EXCEPT ![c] = n]
               /\ UNCHANGED lock
  /\ UNCHANGED <<parsed, now, tz, creds, file, csrc, ctoday, result, refreshCalls>>
  /\ UNCHANGED otherThanCache

\* A save that keeps the weekCommencing of the payload it finds.
SaveMenuMerging(c, s, menu, ok) ==
  IF ok THEN /\ file' = [file EXCEPT ![s] =
                          IF file[s].kind = "json" /\ file[s].week.kind = "iso"
                          THEN File("json", file[s].week, menu, now)
                          ELSE Payload(menu, now)]
             /\ Goes(c, "loggingOut", "saved")
  ELSE /\ UNCHANGED file
       /\ Throws(c, "writeError")

\* A save to one path shared by both modules: whichever source saves, the
\* Blavatnik file is written.
SaveMenuShared(c, s, menu, ok) ==
  IF ok THEN /\ file' = [file EXCEPT !["blavatnik"] = Payload(menu, now)]
             /\ Goes(c, "loggingOut", "saved")
  ELSE /\ UNCHANGED file
       /\ Throws(c, "writeError")

\* A save whose write is cut short and leaves a file that is no JSON.
SaveMenuCutShort(c, s, menu, ok) ==
  IF ok THEN /\ file' = [file EXCEPT ![s] = Corrupt]
             /\ Goes(c, "loggingOut", "saved")
  ELSE /\ UNCHANGED file
       /\ Throws(c, "writeError")

\* saveMenu(menuData): the payload replaces the file, or the write throws.
SaveMenu(c, s, menu, ok) ==
  IF ok THEN /\ file' = [file EXCEPT ![s] = Payload(menu, now)]
             /\ Goes(c, "loggingOut", "saved")
  ELSE /\ UNCHANGED file
       /\ Throws(c, "writeError")

\* menuData = await parseMenuImage(...) and what follows up to the next
\* await: the vision call throws (so does JSON.parse of a braced match that
\* is not JSON), or it returns a value: a usable one is saved, otherwise the
\* next attachment is tried, and after the last nothing is saved.
Vision(c) ==
  /\ cpc[c] = "vision"
  /\ LET s == csrc[c]
     IN  \/ /\ Throws(c, "visionError") /\ Release(c)
            /\ UNCHANGED <<file, left, parsed>>
         \/ \E v \in VisionValues(s) :
              /\ parsed' = [parsed EXCEPT ![c] = v]
              /\ IF Usable(s, v)
                 THEN /\ \E ok \in BOOLEAN : SaveMenu(c, s, v, ok)
                      /\ Release(c)
                      /\ UNCHANGED left
                 ELSE IF left[c] > 1
                 THEN /\ left' = [left EXCEPT ![c] = left[c] - 1]
                      /\ UNCHANGED <<file, cpc, outcome, lock>>
                 ELSE /\ Goes(c, "loggingOut",
                              IF v = "unparseable" THEN "unparseable" ELSE "noData")
                      /\ Release(c)
                      /\ UNCHANGED <<file, left>>
  /\ UNCHANGED <<now, tz, creds, csrc, ctoday, result, refreshCalls>>
  /\ UNCHANGED otherThanCache

\* await client.logout()
Logout(c) ==
  /\ cpc[c] = "loggingOut"
  /\ \E ok \in BOOLEAN :
       cpc' = [cpc EXCEPT ![c] = IF ok THEN "read" ELSE CatchImapError]
  /\ UNCHANGED <<parsed, now, tz, creds, file, csrc, ctoday, left, lock, result,
                 refreshCalls, outcome>>
  /\ UNCHANGED otherThanCache

\* The read after the refresh as it would be if it never served what the
\* file holds.
ReadBackEmpty(c) ==
  /\ cpc[c] = "read"
  /\ result' = [result EXCEPT ![c] = <<>>]
  /\ cpc' = [cpc EXCEPT ![c] = "done"]
  /\ UNCHANGED <<parsed, now, tz, creds, file, csrc, ctoday, left, lock, refreshCalls, outcome>>
  /\ UNCHANGED otherThanCache

\* After await checkForNew*Menu(): existsSync, the read, the formatting.
ReadBack(c) ==
  /\ cpc[c] = "read"
  /\ result' = [result EXCEPT ![c] = ReadCache(csrc[c], file[csrc[c]], ctoday[c])]
  /\ cpc' = [cpc EXCEPT ![c] = "done"]
  /\ UNCHANGED <<parsed, now, tz, creds, file, csrc, ctoday, left, lock, refreshCalls, outcome>>
  /\ UNCHANGED otherThanCache

\* The caller has its line list; it may fetch again later.
Resolved(c) ==
  /\ cpc[c] = "done"
  /\ cpc' = [cpc EXCEPT ![c] = "idle"]
  /\ csrc' = [csrc EXCEPT ![c] = "none"]
  /\ ctoday' = [ctoday EXCEPT ![c] = "none"]
  /\ left' = [left EXCEPT ![c] = 0]
  /\ lock' = [lock EXCEPT ![c] = "none"]
  /\ result' = [result EXCEPT ![c] = <<>>]
  /\ refreshCalls' = [refreshCalls EXCEPT ![c] = 0]
  /\ outcome' = [outcome EXCEPT ![c] = "none"]
  /\ parsed' = [parsed EXCEPT ![c] = "none"]
  /\ UNCHANGED <<now, tz, creds, file>>
  /\ UNCHANGED otherThanCache

CallerStep(c) ==
  \/ Fetch(c)
  \/ Connect(c)
  \/ GetMailboxLock(c)
  \/ Search(c)
  \/ Download(c)
  \/ ParseMail(c)
  \/ Vision(c)
  \/ Logout(c)
  \/ ReadBack(c)
  \/ Resolved(c)

CacheNext ==
  \/ Tick
  \/ \E c \in Callers : CallerStep(c)

InitCache ==
  /\ CacheInit
  /\ AggOff
  /\ ParseOff
  /\ FunctionsOff

SpecCache == InitCache /\ [][CacheNext]_vars

(***************************************************************************)
(* The weekly caches: properties                                           *)
(***************************************************************************)
IsLineList(r) == r \in Seq(STRING)

CalendarDate(t) == (t + tz) \div SlotsPerDay

MondayOnOrBefore(date) == CHOOSE m \in (date - 6)..date : DAYS[(m % Len(DAYS)) + 1] = "Monday"

SameWeek(t, u) == MondayOnOrBefore(CalendarDate(t)) = MondayOnOrBefore(CalendarDate(u))

\* The step in which a caller's fetch starts, and its two ways on.
StartsFetch(c) == cpc[c] = "idle" /\ cpc'[c] # "idle"

ServedAsFresh(c) == refreshCalls'[c] = 0 /\ cpc'[c] = "done"

RefreshesFirst(c) ==
  /\ refreshCalls'[c] = 1
  /\ cpc'[c] \in {"connecting", "read"}
  /\ result'[c] = <<>>

\* C10: a fetch serves the cached payload without a refresh exactly when the
\* payload's stored week start is the Monday of the current week by local
\* calendar date, which is exactly when the payload was written in the
\* current week; in every other case the refresh is attempted before the
\* file is read for the result.
C10_FreshByCalendarWeek ==
  [][\A c \in Callers :
       StartsFetch(c) =>
         LET f == file[csrc'[c]]
             payload == f.kind = "json" /\ f.week.kind = "iso"
         IN  /\ ServedAsFresh(c) \/ RefreshesFirst(c)
             /\ ~payload => RefreshesFirst(c)
             /\ payload =>
                  /\ ServedAsFresh(c) <=>
                       CalendarDate(f.week.at) = MondayOnOrBefore(CalendarDate(now))
                  /\ ServedAsFresh(c) <=> SameWeek(f.savedAt, now)]_vars

\* C10 witness: a payload saved during one week, and at the first moment of
\* the following week a fetch that has gone to refresh it.
C10_Witness ==
  \E c \in Callers :
    LET f == file[csrc[c]]
    IN  /\ cpc[c] = "connecting"
        /\ refreshCalls[c] = 1
        /\ f.kind = "json" /\ f.week.kind = "iso"
        /\ f.savedAt # f.week.at
        /\ ~SameWeek(f.savedAt, now)
        /\ GetWeekMonday(now) = now

(***************************************************************************)
(* blavatnik.js: getWeekMonday on its own                                  *)
(***************************************************************************)
\* weeks of reference dates, from the start of the clock on
MaxWeeks == 2

RefDates == StartInstant..(StartInstant + MaxWeeks * Len(DAYS) * SlotsPerDay)

WeekInit ==
  /\ wkPc = "idle"
  /\ refDate \in RefDates
  /\ weekMonday = 0
  /\ tz \in {-1, 0, 1}

\* getWeekMonday(date)
CallGetWeekMonday ==
  /\ wkPc = "idle"
  /\ weekMonday' = GetWeekMonday(refDate)
  /\ wkPc' = "returned"
  /\ UNCHANGED refDate
  /\ UNCHANGED otherThanWeek

WeekNext == CallGetWeekMonday

InitWeek ==
  /\ WeekInit
  /\ CacheIdle
  /\ AggOff
  /\ ParseOff
  /\ StripOff
  /\ ReadOff

SpecWeek == InitWeek /\ [][WeekNext]_vars

\* The instants of the local calendar date d.
InstantsOf(d) == {d * SlotsPerDay - tz + k : k \in 0..(SlotsPerDay - 1)}

HasMenuMapping(f) == f.menu \notin {"missing", "scalar"}

ExpectedShape(f) ==
  /\ f.kind = "json"
  /\ f.week.kind = "iso"
  /\ HasMenuMapping(f)

\* C12: a cache file that does not parse or lacks the expected shape is
\* handled as a miss: the fetch that finds it attempts the refresh before it
\* reads, and it does not reject.
C12_MalformedIsMiss ==
  [][\A c \in Callers :
       StartsFetch(c) /\ file[csrc'[c]].kind # "absent"
                      /\ ~ExpectedShape(file[csrc'[c]]) =>
         /\ RefreshesFirst(c)
         /\ cpc'[c] # "rejected"]_vars

\* C12, the state that departs from it: a JSON object of the current week
\* without a menu has been served as fresh, with no refresh attempted and an
\* empty result.
C12_Witness ==
  \E c \in Callers :
    LET f == file[csrc[c]]
    IN  /\ cpc[c] = "done"
        /\ refreshCalls[c] = 0
        /\ f.kind = "json" /\ f.menu = "missing"
        /\ IsFresh(f, now)
        /\ result[c] = <<>>

(***************************************************************************)
(* The weekly caches: a refresh that yields nothing                        *)
(***************************************************************************)
\* How checkForNew*Menu ends when it returns null with no new data: no
\* credentials, no mail of the week, no image attached, no image that gives
\* a menu.
NoNewData == {"noCredentials", "noEmail", "noAttachment", "noData", "unparseable"}

\* The fetch of caller c has resolved after a refresh that yielded nothing.
ResolvedWithNothingNew(c) ==
  /\ cpc[c] = "done"
  /\ refreshCalls[c] = 1
  /\ outcome[c] \in NoNewData

WeekdayNames == {WEEKDAYS[i] : i \in 1..Len(WEEKDAYS)}

\* What a weekday may hold in cached.menu: no entry, an entry with three
\* empty strings, one dish only, meat and side without veg, or all three.
DayMenus ==
  { NoDayMenu,
    DayMenu("", "", ""),
    DayMenu("Lentil Dhal", "", ""),
    DayMenu("", "Tomato Soup", ""),
    DayMenu("", "", "Side Salad"),
    DayMenu("Lentil Dhal", "", "Side Salad"),
    DayMenu("Grilled Chicken", "Tomato Soup", "Side Salad") }

ReadInit ==
  /\ rdPc = "idle"
  /\ rdMenu \in [WeekdayNames -> DayMenus]
  /\ rdToday \in DayNames
  /\ rdLines = <<>>

\* The read of fetchBlavatnik(today) on a cache that parses to this menu.
CallReadMenu ==
  /\ rdPc = "idle"
  /\ rdLines' = ReadMenu(rdMenu, rdToday)
  /\ rdPc' = "returned"
  /\ UNCHANGED <<rdMenu, rdToday>>
  /\ UNCHANGED otherThanRead

ReadNext == CallReadMenu

InitRead ==
  /\ ReadInit
  /\ AggOff
  /\ ParseOff
  /\ CacheOff
  /\ WeekOff
  /\ StripOff

SpecRead == InitRead /\ [][ReadNext]_vars

\* A weekday's content is what is shown for it: non-empty when formatDayMenu
\* gives at least one line.
HasContent(m, day) == FormatDayMenu(DayMenuOf(m, day)) # <<>>

Label(day) == "_Next available: " \o day \o "_"

Labels == {Label(d) : d \in WeekdayNames}

WeekdayIndex(day) ==
  IF day \in WeekdayNames THEN CHOOSE i \in 1..Len(WEEKDAYS) : WEEKDAYS[i] = day
  ELSE 0

FirstOf(S) == CHOOSE i \in S : \A j \in S : i <= j

\* The weekdays with content strictly after a day, and all of them.
ContentAfter(m, day) ==
  {i \in 1..Len(WEEKDAYS) : i > WeekdayIndex(day) /\ HasContent(m, WEEKDAYS[i])}

ContentAnywhere(m) == {i \in 1..Len(WEEKDAYS) : HasContent(m, WEEKDAYS[i])}

\* C15: when today has no content, the result is the label and the lines of
\* the first weekday after today that has content, and if there is none, of
\* the first weekday from Monday that has content.
C15_FallbackFirstWithContent ==
  rdPc = "returned" /\ ~HasContent(rdMenu, rdToday) =>
    LET later == ContentAfter(rdMenu, rdToday)
        any == ContentAnywhere(rdMenu)
        chosen == IF later # {} THEN WEEKDAYS[FirstOf(later)] ELSE WEEKDAYS[FirstOf(any)]
    IN  any # {} =>
          rdLines = <<Label(chosen)>> \o FormatDayMenu(DayMenuOf(rdMenu, chosen))

\* C15, the state that departs from it: on a Monday without content,
\* Tuesday holds a side dish only and Wednesday a main dish, and the result
\* is labelled Wednesday.
C15_Witness ==
  /\ rdPc = "returned"
  /\ rdToday = "Monday"
  /\ ~HasContent(rdMenu, "Monday")
  /\ rdMenu["Tuesday"] = DayMenu("", "", "Side Salad")
  /\ rdMenu["Wednesday"] = DayMenu("Lentil Dhal", "", "")
  /\ rdLines = <<Label("Wednesday"), "1. Lentil Dhal">>

\* C16: when no weekday of the menu has content, the result is the empty
\* list, without a label line.
C16_NoContentNoLabel ==
  rdPc = "returned" /\ ContentAnywhere(rdMenu) = {} => rdLines = <<>>

\* C16 witness: entries with three empty strings and days without an entry,
\* and an empty result.
C16_Witness ==
  /\ rdPc = "returned"
  /\ ContentAnywhere(rdMenu) = {}
  /\ rdMenu["Monday"] = DayMenu("", "", "")
  /\ rdMenu["Wednesday"] = NoDayMenu
  /\ rdLines = <<>>

\* C17: when today has content the result is today's formatted lines and
\* none of them is a label; a result begins with a label only when today has
\* no content and a fallback day is found, and it is then that one label
\* followed by the fallback day's formatted lines, of which there is at
\* least one.
C17_LabelOnlyOnFallback ==
  rdPc = "returned" =>
    LET todayLines == FormatDayMenu(DayMenuOf(rdMenu, rdToday))
        labelled == rdLines # <<>> /\ rdLines[1] \in Labels
    IN  /\ todayLines # <<>> =>
              /\ rdLines = todayLines
              /\ \A i \in 1..Len(rdLines) : rdLines[i] \notin Labels
        /\ labelled =>
              /\ todayLines = <<>>
              /\ \E d \in WeekdayNames :
                    /\ rdLines = <<Label(d)>> \o FormatDayMenu(DayMenuOf(rdMenu, d))
                    /\ FormatDayMenu(DayMenuOf(rdMenu, d)) # <<>>
              /\ \A i \in 2..Len(rdLines) : rdLines[i] \notin Labels
        /\ todayLines = <<>> /\ rdLines # <<>> => labelled

\* C17 witness: on a Friday without content the result is the label for
\* Monday and Monday's three lines.
C17_Witness ==
  /\ rdPc = "returned"
  /\ rdToday = "Friday"
  /\ ~HasContent(rdMenu, "Friday")
  /\ rdLines = << Label("Monday"), "1. Grilled Chicken", "2. Tomato Soup",
                   "3. Side Salad" >>

(***************************************************************************)
(* scraper.js: stripCalories on its own                                    *)
(***************************************************************************)
\* longest text, in tokens
MaxText == 5

\* The tokens a text is made of: whitespace, a digit, the unit, a dash, an
\* opening parenthesis, and a letter that is none of these.
TextTokens == {" ", "1", "kcal", "-", "(", "x"}

Texts == UNION {[1..n -> TextTokens] : n \in 0..MaxText}

StripInit ==
  /\ scPc = "idle"
  /\ scText \in Texts
  /\ scOnce = <<>>
  /\ scTwice = <<>>

\* stripCalories(text)
StripOnce ==
  /\ scPc = "idle"
  /\ scOnce' = StripCalories(scText)
  /\ scPc' = "once"
  /\ UNCHANGED <<scText, scTwice>>
  /\ UNCHANGED otherThanStrip

\* stripCalories(stripCalories(text))
StripTwice ==
  /\ scPc = "once"
  /\ scTwice' = StripCalories(scOnce)
  /\ scPc' = "twice"
  /\ UNCHANGED <<scText, scOnce>>
  /\ UNCHANGED otherThanStrip

StripNext ==
  \/ StripOnce
  \/ StripTwice

InitStrip ==
  /\ StripInit
  /\ AggOff
  /\ ParseOff
  /\ CacheOff
  /\ WeekOff
  /\ ReadOff

SpecStrip == InitStrip /\ [][StripNext]_vars

\* C18: stripping the calories of a text that has already been stripped
\* gives the same text.
C18_Idempotent == scPc = "twice" => scTwice = scOnce

\* C18, the state that departs from it: "1 1kcalkcal" is stripped to
\* "1kcal", and that to the empty text.
C18_Witness ==
  /\ scPc = "twice"
  /\ scText = <<"1", " ", "1", "kcal", "kcal">>
  /\ scOnce = <<"1", "kcal">>
  /\ scTwice = <<>>

(***************************************************************************)
(* parseExeterSection: where the section begins and ends                   *)
(***************************************************************************)
\* C19: every line comes from a sibling strictly between the section's h2
\* and the first h2 after it (or the end of the siblings), the lines are in
\* document order, the loop starts at the sibling right after the section's
\* h2 and has stopped exactly at that boundary when the call returns, and
\* every heading with text met on the way that is not a skipped one, an h3
\* included, has its line: no h3 ends the section.
C19_SectionBounds ==
  /\ \A p \in 1..Len(origin) : InSection(origin[p].node)
  /\ \A p, q \in 1..Len(origin) :
       p < q =>
         \/ origin[p].node < origin[q].node
         \/ origin[p].node = origin[q].node /\ origin[p].item < origin[q].item
  /\ parsePc = "walk" =>
       /\ Anchor < current /\ current <= SectionEnd
       /\ lines = <<>> => \A n \in (Anchor + 1)..(current - 1) :
                            NodeKind(doc, n) # "heading"
  /\ parsePc = "returned" /\ Anchor > 0 =>
       /\ current = SectionEnd
       /\ \A n \in (Anchor + 1)..(SectionEnd - 1) :
            NodeKind(doc, n) = "heading" => PushedAt(n, 0) # {}

\* C19 witness: the section's first sibling is an h3 and gave the first
\* line, a second h3 and a list item after it gave lines too, and the call
\* returned at the next h2, which has siblings after it.
C19_Witness ==
  /\ parsePc = "returned"
  /\ Anchor > 0
  /\ SectionEnd < Len(doc)
  /\ doc[Anchor + 1].tag = "H3"
  /\ origin # <<>> /\ origin[1].node = Anchor + 1
  /\ \E n \in (Anchor + 2)..(SectionEnd - 1) :
       /\ doc[n].tag = "H3"
       /\ PushedAt(n, 0) # {}
       /\ \E p \in 1..Len(origin) : origin[p].node > n /\ origin[p].item > 0

(***************************************************************************)
(* The weekly caches: what a save leaves in the file                       *)
(***************************************************************************)
\* The step in which caller c saves a menu.
Saves(c) == outcome[c] # "saved" /\ outcome'[c] = "saved"

Slot(dayMenu, n) ==
  CASE n = 1 -> dayMenu.meat
    [] n = 2 -> dayMenu.veg
    [] n = 3 -> dayMenu.side

SlotLine(dayMenu, n) == <<"1. ", "2. ", "3. ">>[n] \o Slot(dayMenu, n)

\* C21: the lines shown for a day are one line per non-empty slot, "1. "
\* with the meat, "2. " with the veg, "3. " with the side, in the order of
\* these numbers; an empty slot gives no line and leaves the other numbers
\* as they are, and a day without an entry gives no line.
C21_NumberedBySlot ==
  rdPc = "returned" =>
    LET labelled == rdLines # <<>> /\ rdLines[1] \in Labels
        shown == IF labelled THEN CHOOSE d \in WeekdayNames : rdLines[1] = Label(d)
                 ELSE rdToday
        body == IF labelled THEN Tail(rdLines) ELSE rdLines
        dayMenu == DayMenuOf(rdMenu, shown)
        filled == {n \in 1..3 : dayMenu.present /\ Slot(dayMenu, n) # ""}
    IN  /\ Len(body) = Cardinality(filled)
        /\ \A n \in filled : \E i \in 1..Len(body) : body[i] = SlotLine(dayMenu, n)
        /\ \A i, j \in 1..Len(body) :
             i < j => \E n, k \in filled :
                        /\ n < k
                        /\ body[i] = SlotLine(dayMenu, n)
                        /\ body[j] = SlotLine(dayMenu, k)
        /\ ~dayMenu.present => body = <<>>

\* C21 witness: today has meat and side but no veg, and the lines are
\* numbered 1 and 3.
C21_Witness ==
  /\ rdPc = "returned"
  /\ rdToday = "Tuesday"
  /\ rdMenu["Tuesday"] = DayMenu("Lentil Dhal", "", "Side Salad")
  /\ rdMenu["Monday"] = NoDayMenu
  /\ rdLines = <<"1. Lentil Dhal", "3. Side Salad">>

(***************************************************************************)
(* parseExeterSection: which h2 is the anchor                              *)
(***************************************************************************)
\* The h2 siblings whose text contains the section name, the first of them,
\* and the first h2 after it (one past the last sibling when there is none).
NamedH2s ==
  {i \in 1..Len(doc) : doc[i].tag = "H2" /\ Includes(Trim(doc[i].text), sectionName)}

FirstNamedH2 == CHOOSE i \in NamedH2s : \A j \in NamedH2s : i <= j

H2After(n) ==
  LET later == {i \in (n + 1)..Len(doc) : doc[i].tag = "H2"}
  IN  IF later = {} THEN Len(doc) + 1 ELSE CHOOSE i \in later : \A j \in later : i <= j

\* C22: the walk starts right after the first h2 whose text contains the
\* section name, whether or not the text is exactly the name, and every line
\* comes from between that h2 and the next h2, also when a later h2 contains
\* the name too; when no h2 contains it there is no walk and no line.
C22_FirstContainingH2 ==
  /\ NamedH2s = {} => parsePc \in {"idle", "returned"} /\ lines = <<>>
  /\ NamedH2s # {} /\ parsePc \in {"walk", "returned"} =>
       /\ current \in (FirstNamedH2 + 1)..H2After(FirstNamedH2)
       /\ \A p \in 1..Len(origin) :
            origin[p].node \in (FirstNamedH2 + 1)..(H2After(FirstNamedH2) - 1)
       /\ parsePc = "returned" =>
            /\ current = H2After(FirstNamedH2)
            /\ lines = TextsOf(WalkFrom(doc, FirstNamedH2 + 1, FALSE, ptoday))

\* C22 witness: two h2 contain the name, neither is exactly the name, the
\* call returned at the second, and the lines are those of the first.
C22_Witness ==
  /\ parsePc = "returned"
  /\ Cardinality(NamedH2s) = 2
  /\ \A i \in NamedH2s : Trim(doc[i].text) # sectionName
  /\ lines # <<>>
  /\ current \in NamedH2s
  /\ current < Len(doc)

(***************************************************************************)
(* parseExeterSection: which nodes are headings                            *)
(***************************************************************************)
\* The four conditions on a paragraph.
FourConditions(n) ==
  LET text == Trim(doc[n].text)
  IN  /\ TextLength(text) < 60
      /\ \A k \in 1..Len(text) : text[k] # "<bullet>"
      /\ ~DayPrefixTest(text)
      /\ n < Len(doc) /\ doc[n + 1].tag = "UL"

\* The classification as stated, and the one restricted to nodes with text.
ClassifiedAsStated(n) ==
  \/ doc[n].tag = "H3"
  \/ doc[n].tag = "P" /\ FourConditions(n)

ClassifiedWithText(n) == Trim(doc[n].text) # <<>> /\ ClassifiedAsStated(n)

\* The visited h3 and p siblings of the section.
VisitedTextNodes ==
  {n \in 1..Len(doc) : /\ InSection(n) /\ n < current
                        /\ parsePc \in {"walk", "returned"}
                        /\ doc[n].tag \in {"H3", "P"}}

\* What being a heading means for the lines: a heading outside the skipped
\* names has exactly one line, "\n*" text "*"; a heading with a skipped name
\* has none; any other h3 or p has at most its bare text; and a line that
\* begins with "\n*" comes from a heading.
HeadingRule(Classified(_)) ==
  /\ \A n \in VisitedTextNodes :
       LET text == Trim(doc[n].text)
       IN  /\ Classified(n) /\ ~SKIP_SECTIONS_RE(text) =>
                /\ Cardinality(PushedAt(n, 0)) = 1
                /\ \A p \in PushedAt(n, 0) : lines[p] = <<"\n*">> \o text \o <<"*">>
           /\ Classified(n) /\ SKIP_SECTIONS_RE(text) => PushedAt(n, 0) = {}
           /\ ~Classified(n) => \A p \in PushedAt(n, 0) : lines[p] = text
  /\ \A p \in 1..Len(lines) :
       lines[p][1] = "\n*" =>
         /\ origin[p].item = 0
         /\ Classified(origin[p].node)
         /\ lines[p][Len(lines[p])] = "*"

\* C23 as stated: every h3 is a heading, a paragraph is one exactly under
\* the four conditions, and headings are emitted as "\n*" text "*".
C23_Original == HeadingRule(ClassifiedAsStated)

\* C23 as amended: an h3 whose trimmed text is not empty is a heading; a
\* paragraph whose trimmed text is not empty is one exactly when the text is
\* shorter than 60 characters, holds no bullet character, has no weekday
\* prefix, and the next sibling is a list; every heading emitted is
\* "\n*" text "*", and an h3 or paragraph without text is passed over.
C23_HeadingClassification == HeadingRule(ClassifiedWithText)

\* C23 witness: a paragraph with a bullet character stands before a list,
\* and its line is its bare text, followed by Monday's item of the list.
C23_Witness ==
  /\ parsePc = "returned"
  /\ Anchor > 0
  /\ ptoday = "Monday"
  /\ SectionBody = <<BulletParagraph, DayList>>
  /\ lines = <<BulletParagraph.text, <<"<bullet>", " ", "Pasta">> >>

(***************************************************************************)
(* parseExeterSection: paragraphs that are no heading                      *)
(***************************************************************************)
\* The loop is at a paragraph with text that is not a heading.
AtPlainParagraph ==
  /\ AtNode
  /\ doc[current].tag = "P"
  /\ Trim(doc[current].text) # <<>>
  /\ ~FourConditions(current)

\* C24: a paragraph with text that is not a heading adds exactly its
\* trimmed text as a line, with no marker, when the walker is not skipping
\* and the text does not match the skip-line pattern; otherwise it adds no
\* line; either way the skipping state stays as it is.
C24_PlainParagraph ==
  [][AtPlainParagraph =>
       LET text == Trim(doc[current].text)
       IN  /\ skipUntilNext' = skipUntilNext
           /\ IF ~skipUntilNext /\ ~SKIP_LINES_RE(text)
              THEN lines' = Append(lines, text)
              ELSE lines' = lines]_vars

\* C24 witness: "Main Course" with no list after it was emitted as it is,
\* and the "Please note ... subject to change" paragraph after it gave no
\* line.
C24_Witness ==
  /\ parsePc = "returned"
  /\ Anchor > 0
  /\ SectionBody =
       << Node("P", MainCourse),
          Node("P", <<"Please note", ": all menu items are ", "subject to change">>) >>
  /\ lines = <<MainCourse>>

(***************************************************************************)
(* The weekly caches: the week tag of what is persisted                    *)
(***************************************************************************)
\* An instant is local midnight of a Monday.
MondayMidnight(t) ==
  /\ (t + tz) % SlotsPerDay = 0
  /\ DAYS[(CalendarDate(t) % Len(DAYS)) + 1] = "Monday"

Requests == {"cron", "!menu"}

Both(v) == [c \in Requests |-> v]

\* Both requests are about to start, with credentials set, on caches that
\* are stale or absent.
RaceInit ==
  /\ now = StartInstant
  /\ tz = 0
  /\ creds = TRUE
  /\ file \in [Sources ->
                 {Absent,
                  EarlierPayload("sample", GetWeekMonday(now) - Len(DAYS) * SlotsPerDay)}]
  /\ cpc = Both("idle")
  /\ csrc = Both("none")
  /\ ctoday = Both("none")
  /\ left = Both(0)
  /\ lock = Both("none")
  /\ result = Both(<<>>)
  /\ refreshCalls = Both(0)
  /\ outcome = Both("none")
  /\ parsed = Both("none")

RaceNext == \E c \in Requests : CallerStep(c)

InitRace ==
  /\ RaceInit
  /\ AggOff
  /\ ParseOff
  /\ FunctionsOff

SpecRace == InitRace /\ [][RaceNext]_vars

\* The payloads a refresh of source s can write at instant t.
CompletePayloads(s, t) == {Payload(v, t) : v \in {x \in VisionValues(s) : Usable(s, x)}}

\* C26: with two requests fetching at once, neither fetch rejects and each
\* can always go on until it has resolved; a cache file changes only in the
\* step in which one request saves, and becomes the complete payload of that
\* save; so once a request has saved for a source, the file of the source is
\* a complete payload of one of the saves, never absent and never anything
\* else.
C26_InterleavedRefresh ==
  /\ [](\A c \in Requests :
          /\ cpc[c] # "rejected"
          /\ cpc[c] \notin {"idle", "done"} => ENABLED CallerStep(c)
          /\ outcome[c] = "saved" => file[csrc[c]] \in CompletePayloads(csrc[c], now))
  /\ [][\A s \in Sources :
          file'[s] # file[s] =>
            \E c \in Requests :
              /\ Saves(c)
              /\ csrc[c] = s
              /\ file'[s] \in CompletePayloads(s, now)]_vars

\* C26 witness: both requests found the Blavatnik cache stale, both
\* refreshed and saved, and both have resolved; the file holds the menu of
\* the later save, while one request resolved to the lines of the earlier.
C26_Witness ==
  /\ \A c \in Requests :
       /\ cpc[c] = "done"
       /\ csrc[c] = "blavatnik"
       /\ refreshCalls[c] = 1
       /\ outcome[c] = "saved"
  /\ file["blavatnik"] \in CompletePayloads("blavatnik", now)
  /\ file["blavatnik"].menu = "gap"
  /\ \E c \in Requests :
       /\ result[c] # ReadCache("blavatnik", file["blavatnik"], ctoday[c])
       /\ result[c] = ReadCache("blavatnik", Payload("sample", now), ctoday[c])

\* The step is one of request c, and the source its fetch is of.
StepOf(c) == <<cpc[c], left[c]>> # <<cpc'[c], left'[c]>>

FetchedSource(c) == IF cpc[c] = "idle" THEN csrc'[c] ELSE csrc[c]

\* C27: in every interleaving of two requests, a step of a fetch of one
\* source leaves the other source's cache file as it is, and the lines a
\* fetch resolves to are read from the file of its own source.
C27_OwnCacheOnly ==
  [][\A c \in Requests :
       StepOf(c) =>
         /\ \A o \in Sources \ {FetchedSource(c)} : file'[o] = file[o]
         /\ cpc'[c] = "done" =>
              result'[c] = IF FetchedSource(c) = "blavatnik"
                           THEN ReadBlavatnik(file["blavatnik"], ctoday'[c])
                           ELSE ReadSchwarzman(file["schwarzman"])]_vars

\* C27 witness: the "!menu" request has refreshed and saved the Schwarzman
\* cache while the cron request is in the middle of refreshing the
\* Blavatnik cache, which is still absent.
C27_Witness ==
  /\ csrc["cron"] = "blavatnik"
  /\ cpc["cron"] = "vision"
  /\ file["blavatnik"] = Absent
  /\ csrc["!menu"] = "schwarzman"
  /\ cpc["!menu"] = "done"
  /\ outcome["!menu"] = "saved"
  /\ file["schwarzman"] = Payload("sample", now)
  /\ result["!menu"] = ReadSchwarzman(file["schwarzman"])

(***************************************************************************)
(* The weekly caches: how often a fetch goes upstream                      *)
(***************************************************************************)
\* Where a fetch is while checkForNew*Menu is at the mailbox or the vision
\* model.
Upstream == {"connecting", "locking", "searching", "downloading", "parsing",
             "vision", "loggingOut"}

\* The file exists, parses, and is tagged with the Monday of the current
\* week.
TaggedThisWeek(f) ==
  /\ f.kind = "json"
  /\ f.week.kind = "iso"
  /\ CalendarDate(f.week.at) = MondayOnOrBefore(CalendarDate(now))

\* C28: a fetch that finds its cache tagged with the current week resolves
\* at once, with no refresh and no step at the mailbox or the vision model;
\* any other fetch starts the refresh once, when the fetch starts, and after
\* the refresh has returned the fetch only reads and resolves.
C28_AtMostOneRefresh ==
  [][\A c \in Callers :
       /\ StartsFetch(c) /\ TaggedThisWeek(file[csrc'[c]]) =>
            /\ refreshCalls'[c] = 0
            /\ cpc'[c] = "done"
       /\ refreshCalls'[c] \in {0, 1}
       /\ cpc'[c] \in Upstream => refreshCalls'[c] = 1
       /\ cpc'[c] = "connecting" /\ cpc[c] # "connecting" => cpc[c] = "idle"
       /\ cpc[c] \in Upstream /\ cpc'[c] \notin Upstream => cpc'[c] = "read"
       /\ cpc[c] = "read" /\ cpc'[c] # "read" => cpc'[c] = "done"
       /\ cpc[c] = "done" /\ cpc'[c] # "done" => cpc'[c] = "idle"]_vars

\* C28 witness: with credentials set, a fetch on a cache of the current week
\* has resolved to its lines without a refresh.
C28_Witness ==
  \E c \in Callers :
    /\ creds
    /\ cpc[c] = "done"
    /\ refreshCalls[c] = 0
    /\ outcome[c] = "fresh"
    /\ TaggedThisWeek(file[csrc[c]])
    /\ file[csrc[c]].menu = "sample"
    /\ result[c] # <<>>

(***************************************************************************)
(* blavatnik.js: which attachment is saved                                 *)
(***************************************************************************)
\* The value has a weekday with a non-empty meat, veg or side.
WithContent(name) ==
  \E d \in WeekdayNames : \E n \in 1..3 :
    LET dayMenu == DayMenuOf(BlavatnikMenu(name), d)
    IN  dayMenu.present /\ Slot(dayMenu, n) # ""

\* C29: in checkForNewMenu the loop passes on to the next attachment only
\* after one whose data has no content, and it leaves the file alone then;
\* the file is written only in the step that parses an attachment whose
\* data has content, with exactly that data, and that step ends the loop;
\* when the last attachment has no content the file is not written; and
\* after a save nothing more is written in the same call.
C29_FirstAttachmentWithContent ==
  [][\A c \in Callers :
       /\ cpc[c] = "vision" /\ csrc[c] = "blavatnik" =>
            /\ left'[c] < left[c] =>
                 /\ ~WithContent(parsed'[c])
                 /\ file' = file
                 /\ cpc'[c] = "vision"
            /\ file' # file =>
                 /\ Saves(c)
                 /\ file'["blavatnik"].menu = parsed'[c]
                 /\ WithContent(parsed'[c])
                 /\ cpc'[c] = "loggingOut"
                 /\ left'[c] = left[c]
            /\ outcome'[c] \in {"noData", "unparseable"} =>
                 /\ left[c] = 1
                 /\ ~WithContent(parsed'[c])
                 /\ file' = file
       /\ cpc[c] # "vision" => file' = file
       /\ outcome[c] = "saved" /\ cpc'[c] # "idle" => outcome'[c] = "saved"]_vars

\* C29 witness: the attachment just parsed gave the menu with Tuesday only,
\* it has been saved as it is, and the loop has ended with an attachment
\* fewer to try than a mail can hold.
C29_Witness ==
  \E c \in Callers :
    /\ csrc[c] = "blavatnik"
    /\ cpc[c] = "loggingOut"
    /\ outcome[c] = "saved"
    /\ left[c] = 1
    /\ parsed[c] = "gap"
    /\ file["blavatnik"] = Payload("gap", now)

(***************************************************************************)
(* blavatnik.js, schwarzman.js: the mailbox lock                           *)
(***************************************************************************)
\* The positions inside try { ... } finally { lock.release() }.
InsideLock == {"searching", "downloading", "parsing", "vision"}

\* The ways out of the inner try: no matching email, no image attachment,
\* an exception while searching, downloading or parsing, no usable data, and
\* a save (done, or failed in the write).
WaysOut == {"noEmail", "noAttachment", "imapError", "mailError", "visionError",
            "noData", "unparseable", "saved", "writeError"}

\* C30: in checkForNewMenu and checkForNewSchwarzmanMenu the lock is held
\* exactly while the call is inside the inner try; it is acquired only by
\* getMailboxLock; every step that leaves the inner try, by whichever way
\* out, releases it; a released lock is neither released again nor taken
\* again in the same call; so when the function has returned after
\* acquiring the lock, the lock has been released exactly once.
C30_LockReleasedOnce ==
  /\ [](\A c \in Callers :
          /\ lock[c] \in {"none", "held", "released"}
          /\ lock[c] = "held" <=> cpc[c] \in InsideLock
          /\ cpc[c] \in {"read", "done"} /\ outcome[c] \in WaysOut \ {"imapError"}
               => lock[c] = "released")
  /\ [][\A c \in Callers :
          /\ lock[c] = "none" /\ lock'[c] # "none" =>
               cpc[c] = "locking" /\ lock'[c] = "held"
          /\ lock[c] = "held" /\ cpc'[c] # cpc[c] /\ cpc'[c] \notin InsideLock =>
               /\ lock'[c] = "released"
               /\ outcome'[c] \in WaysOut
          /\ lock[c] = "held" /\ lock'[c] # "held" =>
               lock'[c] = "released" /\ cpc'[c] \notin InsideLock
          /\ lock[c] = "released" /\ lock'[c] # "released" =>
               cpc[c] = "done" /\ lock'[c] = "none"]_vars

\* C30 witness: the vision call threw on an attachment, and the fetch has
\* gone on to its end with the lock released.
C30_Witness ==
  \E c \in Callers :
    /\ cpc[c] = "done"
    /\ outcome[c] = "visionError"
    /\ lock[c] = "released"
====
